---- MODULE Spec2Model ----
(***************************************************************************)
(* Model of the chat-answering pipeline of tutor-cerdas-api:                *)
(*   src/src/lib/gemini.js   generateText and its helpers                   *)
(*   src/src/routes/chat.js  POST /api/chat                                 *)
(*   src/src/index.js        POST /chat/ask (lines 129-146, 411-520)        *)
(*                                                                          *)
(* Conventions.  Opaque texts are TLA+ strings.  Strings that the code      *)
(* inspects character by character (credentials, numeric strings) are       *)
(* sequences of one-character strings; model identifiers are sequences of   *)
(* tokens.  Numbers are integers counting thousandths (0.25 is 250).  A     *)
(* JavaScript value that may be undefined, a number, NaN or a string is a   *)
(* record [t, v, s].                                                        *)
(***************************************************************************)
EXTENDS Integers, Sequences, FiniteSets, TLC

\* Longest array the retrieval backend returns in the model.
MaxChunks == 2

\* Most translateToEnglish calls followed when the translation cache is
\* exercised on its own, and the latest time on the clock then (the cache TTL
\* is 3600000 ms).
MaxTranslateCalls == 3
MaxClock == 3600001

\* Longest array the retrieval backend returns when the handling of its reply
\* is examined on its own.
MaxReplyChunks == 4

\* Most entries of the in-memory docs list of routes/admin.js.
MaxDocs == 3

(***************************************************************************)
(* JavaScript values                                                        *)
(***************************************************************************)
Undef == [t |-> "undef", v |-> 0, s |-> <<>>]
NaN == [t |-> "nan", v |-> 0, s |-> <<>>]
Num(n) == [t |-> "num", v |-> n, s |-> <<>>]
Str(cs) == [t |-> "str", v |-> 0, s |-> cs]

Digits == {"0", "1", "2", "3", "4", "5", "6", "7", "8", "9"}

DigitVal(c) ==
  CASE c = "0" -> 0 [] c = "1" -> 1 [] c = "2" -> 2 [] c = "3" -> 3
    [] c = "4" -> 4 [] c = "5" -> 5 [] c = "6" -> 6 [] c = "7" -> 7
    [] c = "8" -> 8 [] c = "9" -> 9

DigitChar(n) ==
  CASE n = 0 -> "0" [] n = 1 -> "1" [] n = 2 -> "2" [] n = 3 -> "3"
    [] n = 4 -> "4" [] n = 5 -> "5" [] n = 6 -> "6" [] n = 7 -> "7"
    [] n = 8 -> "8" [] n = 9 -> "9"

SetMax(S) == CHOOSE m \in S : \A x \in S : x <= m

\* An unsigned decimal literal: digits with at most one ".", at least one digit.
IsDecimal(cs) ==
  /\ Len(cs) > 0
  /\ \A i \in 1..Len(cs) : cs[i] \in Digits \cup {"."}
  /\ Cardinality({i \in 1..Len(cs) : cs[i] = "."}) <= 1
  /\ \E i \in 1..Len(cs) : cs[i] \in Digits

RECURSIVE IntVal(_)
IntVal(cs) ==
  IF cs = <<>> THEN 0 ELSE 10 * IntVal(SubSeq(cs, 1, Len(cs) - 1)) + DigitVal(cs[Len(cs)])

\* Value of a decimal literal in thousandths (fraction digits beyond the third dropped).
DecVal(cs) ==
  LET dots == {i \in 1..Len(cs) : cs[i] = "."}
      d == IF dots = {} THEN Len(cs) + 1 ELSE CHOOSE i \in dots : TRUE
      frac == SubSeq(cs, d + 1, Len(cs))
      f3 == SubSeq(frac \o <<"0", "0", "0">>, 1, 3)
  IN 1000 * IntVal(SubSeq(cs, 1, d - 1)) + IntVal(f3)

\* parseFloat: the longest prefix that is a decimal literal, NaN when there is none.
ParseFloat(cs) ==
  LET ks == {k \in 1..Len(cs) : IsDecimal(SubSeq(cs, 1, k))}
  IN IF ks = {} THEN NaN ELSE Num(DecVal(SubSeq(cs, 1, SetMax(ks))))

\* Number(x): the whole string must be a literal; "" is 0; undefined is NaN.
ToNumber(x) ==
  CASE x.t = "num" -> x
    [] x.t = "nan" -> NaN
    [] x.t = "undef" -> NaN
    [] x.t = "str" -> IF x.s = <<>> THEN Num(0)
                      ELSE IF IsDecimal(x.s) THEN Num(DecVal(x.s)) ELSE NaN

Truthy(x) ==
  CASE x.t = "num" -> x.v # 0
    [] x.t = "nan" -> FALSE
    [] x.t = "undef" -> FALSE
    [] x.t = "str" -> x.s # <<>>

\* a || b
JsOr(a, b) == IF Truthy(a) THEN a ELSE b

\* a < b on numbers: false as soon as one side is NaN.
JsLess(a, b) == a.t = "num" /\ b.t = "num" /\ a.v < b.v

\* n.toFixed(3) for a non-negative number below 10.
ToFixed3(n) ==
  <<DigitChar(n \div 1000), ".", DigitChar((n \div 100) % 10),
    DigitChar((n \div 10) % 10), DigitChar(n % 10)>>

StartsWith(cs, p) == Len(cs) >= Len(p) /\ SubSeq(cs, 1, Len(p)) = p

(***************************************************************************)
(* src/src/lib/gemini.js                                                    *)
(***************************************************************************)
DefaultModel == <<"models/", "gemini-2.0", "-flash-lite">>

FallbackModels ==
  << <<"models/", "gemini-2.5", "-flash">>,
     <<"models/", "gemini-2.5", "-pro">>,
     <<"models/", "gemini-2.0", "-flash-001">>,
     <<"models/", "gemini-2.0", "-flash">>,
     <<"models/", "text-bison-001">>,
     <<"text-bison-001">> >>

LowerTok(tok) ==
  CASE tok = "MODELS/" -> "models/"
    [] tok = "Gemini-2.5" -> "gemini-2.5"
    [] OTHER -> tok

\* String(model).replace(/^models\//i, '')
normalizeModelId(model) ==
  IF model # <<>> /\ LowerTok(model[1]) = "models/" THEN Tail(model) ELSE model

\* isLikelyBearer taking every non-empty credential for a bearer token.
isLikelyBearer_any(token) == Len(token) > 0

\* token.startsWith('ya29')
isLikelyBearer(token) == StartsWith(token, <<"y", "a", "2", "9">>)

\* Array.from(new Set(list)): first occurrences, in order.
RECURSIVE Dedupe(_)
Dedupe(list) ==
  IF list = <<>> THEN <<>>
  ELSE LET init == Dedupe(SubSeq(list, 1, Len(list) - 1))
           last == list[Len(list)]
       IN IF \E i \in 1..Len(init) : init[i] = last THEN init ELSE Append(init, last)

\* const ENV_MODEL = process.env.GEMINI_MODEL || 'models/gemini-2.0-flash-lite'
ENV_MODEL(envModel) == IF envModel = <<>> THEN DefaultModel ELSE envModel

\* rawList.map(normalizeModelId)
Models(envModel) ==
  LET rawList == Dedupe(<<ENV_MODEL(envModel)>> \o FallbackModels)
  IN [i \in 1..Len(rawList) |-> normalizeModelId(rawList[i])]

\* /^gemini-2\.5/i.test(modelId)
Is25plus(modelId) == modelId # <<>> /\ LowerTok(modelId[1]) = "gemini-2.5"

Endpoint(modelId) == IF Is25plus(modelId) THEN "generateContent" ELSE "generateText"

\* Bodies of the generation backend.  JsonParse maps a body text to the parsed
\* value; a text outside its domain does not parse.
NoOut == [t |-> "undef", text |-> ""]
JsonVal(src, falsy, hasParts, parts, candOutput, output) ==
  [src |-> src, falsy |-> falsy, hasParts |-> hasParts, parts |-> parts,
   candOutput |-> candOutput, output |-> output]
NoJson == JsonVal("", TRUE, FALSE, <<>>, NoOut, NoOut)
ObjPart(text) == [isStr |-> FALSE, text |-> text]
StrPart(text) == [isStr |-> TRUE, text |-> text]

JsonTexts ==
  { "{candidates:[{content:{parts:[{text:A}]}}]}",
    "{candidates:[{content:{parts:[{inlineData:X}]}}]}",
    "{candidates:[{content:{parts:[]}}]}",
    "{candidates:[{content:{parts:[{},{text:B}]}}]}",
    "{candidates:[{content:{parts:[S,T]}}]}",
    "{candidates:[{output:A}]}",
    "{candidates:[{output:{text:B}}]}",
    "{output:A}",
    "{output:{text:B}}",
    "{error:{code:404}}",
    "null" }

JsonParse(text) ==
  CASE text = "{candidates:[{content:{parts:[{text:A}]}}]}" ->
         JsonVal(text, FALSE, TRUE, <<ObjPart("A")>>, NoOut, NoOut)
    [] text = "{candidates:[{content:{parts:[{inlineData:X}]}}]}" ->
         JsonVal(text, FALSE, TRUE, <<ObjPart("")>>, NoOut, NoOut)
    [] text = "{candidates:[{content:{parts:[]}}]}" ->
         JsonVal(text, FALSE, TRUE, <<>>, NoOut, NoOut)
    [] text = "{candidates:[{content:{parts:[{},{text:B}]}}]}" ->
         JsonVal(text, FALSE, TRUE, <<ObjPart(""), ObjPart("B")>>, NoOut, NoOut)
    [] text = "{candidates:[{content:{parts:[S,T]}}]}" ->
         JsonVal(text, FALSE, TRUE, <<StrPart("S"), StrPart("T")>>, NoOut, NoOut)
    [] text = "{candidates:[{output:A}]}" ->
         JsonVal(text, FALSE, FALSE, <<>>, [t |-> "str", text |-> "A"], NoOut)
    [] text = "{candidates:[{output:{text:B}}]}" ->
         JsonVal(text, FALSE, FALSE, <<>>, [t |-> "obj", text |-> "B"], NoOut)
    [] text = "{output:A}" ->
         JsonVal(text, FALSE, FALSE, <<>>, NoOut, [t |-> "str", text |-> "A"])
    [] text = "{output:{text:B}}" ->
         JsonVal(text, FALSE, FALSE, <<>>, NoOut, [t |-> "obj", text |-> "B"])
    [] text = "{error:{code:404}}" ->
         JsonVal(text, FALSE, FALSE, <<>>, NoOut, NoOut)
    [] text = "null" -> JsonVal(text, TRUE, FALSE, <<>>, NoOut, NoOut)

\* A text value that may be null.
NullText == [isNull |-> TRUE, s |-> ""]
Text(s) == [isNull |-> FALSE, s |-> s]
TextTruthy(x) == ~x.isNull /\ x.s # ""

\* JSON.stringify of a parsed value, of a string, of null.
JsonStringify(json) == json.src
StringifyText(x) == IF x.isNull THEN "null" ELSE "\"" \o x.s \o "\""

RECURSIVE JoinLines(_)
JoinLines(ss) ==
  IF ss = <<>> THEN ""
  ELSE IF Len(ss) = 1 THEN ss[1]
  ELSE ss[1] \o "\n" \o JoinLines(Tail(ss))

\* alt.map(p => (typeof p === 'string' ? p : p?.text)).filter(Boolean)
PartTexts(parts) ==
  SelectSeq([i \in 1..Len(parts) |-> parts[i].text], LAMBDA s : s # "")

\* extractTextFromResponse(is25plus, respJson, respText)
extractTextFromResponse(is25plus, respJson, respText) ==
  IF respJson.falsy /\ TextTruthy(respText) THEN respText.s
  ELSE
    LET parts == respJson.parts
        t == IF respJson.hasParts /\ Len(parts) > 0 /\ ~parts[1].isStr
             THEN parts[1].text ELSE ""
        c1 == respJson.candOutput
        out == respJson.output
        raw == IF ~respJson.falsy THEN JsonStringify(respJson) ELSE StringifyText(respText)
    IN IF is25plus
       THEN IF t # "" THEN t
            ELSE IF respJson.hasParts THEN JoinLines(PartTexts(parts))
            ELSE raw
       ELSE IF c1.t = "str" /\ c1.text # "" THEN c1.text
            ELSE IF c1.t = "obj" /\ c1.text # "" THEN c1.text
            ELSE IF out.t = "str" /\ out.text # "" THEN out.text
            ELSE IF out.t = "obj" /\ out.text # "" THEN out.text
            ELSE raw

\* What one fetch of the generation backend can do: reject (transport failure),
\* be aborted by the timeout, or resolve with a status and a body (text is null
\* when res.text() rejects).
FetchOutcome(kind, status, text) == [kind |-> kind, status |-> status, text |-> text]

GenOkBodies ==
  {Text(s) : s \in JsonTexts} \cup {Text("plain words"), Text(""), NullText}

GenFailBodies == {Text("{error:{code:404}}")}

GenFailures ==
  {FetchOutcome("reject", 0, NullText), FetchOutcome("timeout", 0, NullText)}
    \cup {FetchOutcome("resp", 404, b) : b \in GenFailBodies}

GenFetchOutcomes == GenFailures \cup {FetchOutcome("resp", 200, b) : b \in GenOkBodies}

\* The replies of the generation backend drawn while a chat request is served.
ChatGenOkBodies ==
  { Text("{candidates:[{content:{parts:[{inlineData:X}]}}]}"),
    Text("{candidates:[{output:A}]}") }

ChatGenOutcomes == GenFailures \cup {FetchOutcome("resp", 200, b) : b \in ChatGenOkBodies}

\* callApi: the result record, or the exception it lets escape (threw).
ApiResult(threw, status, ok, text, json, error) ==
  [threw |-> threw, status |-> status, ok |-> ok, text |-> text, json |-> json,
   error |-> error]

\* try { json = text ? JSON.parse(text) : null } catch (e) { json = null }
ParseBody(text) ==
  IF TextTruthy(text) /\ text.s \in JsonTexts THEN JsonParse(text.s) ELSE NoJson

\* callApi without its try/catch: a rejected or aborted fetch escapes.
callApi_noCatch(o) ==
  IF o.kind = "resp"
  THEN ApiResult(FALSE, o.status, o.status \in 200..299, o.text, ParseBody(o.text), "")
  ELSE ApiResult(TRUE, 0, FALSE, NullText, NoJson,
                 IF o.kind = "timeout" THEN "The operation was aborted" ELSE "fetch failed")

callApi(o) ==
  IF o.kind = "resp"
  THEN ApiResult(FALSE, o.status, o.status \in 200..299, o.text, ParseBody(o.text), "")
  ELSE ApiResult(FALSE, 0, FALSE, NullText, NoJson,
                 IF o.kind = "timeout" THEN "The operation was aborted" ELSE "fetch failed")

\* r.text || JSON.stringify(r.json) || r.error || '<no-body>'
ErrBody(r) ==
  IF TextTruthy(r.text) THEN r.text.s
  ELSE LET js == IF r.json.falsy THEN "null" ELSE JsonStringify(r.json)
       IN IF js # "" THEN js
          ELSE IF r.error # "" THEN r.error ELSE "<no-body>"

\* lastErr: the line describing one failed attempt.
NoErr == [scheme |-> "", model |-> <<>>, endpoint |-> "", status |-> 0, body |-> ""]
AttemptErr(useBearer, modelId, r) ==
  [scheme |-> IF useBearer THEN "Bearer" ELSE "API-key", model |-> modelId,
   endpoint |-> Endpoint(modelId), status |-> r.status, body |-> ErrBody(r)]

\* The state of one generateText call.  attempts is the record of the callApi
\* calls made so far (with the body of a successful one).
GenState(gpc, caller, idx, bearer, attempts, lastErr, value, error) ==
  [pc |-> gpc, caller |-> caller, idx |-> idx, bearer |-> bearer,
   attempts |-> attempts, lastErr |-> lastErr, value |-> value, error |-> error]

NoError == [type |-> "", last |-> NoErr]
GenIdle == GenState("idle", "", 0, FALSE, <<>>, NoErr, "", NoError)

\* generateText up to its first await: the key check and the loop set-up.
genStart(caller, rawKey) ==
  IF rawKey = <<>>
  THEN GenState("threw", caller, 0, FALSE, <<>>, NoErr, "",
                [type |-> "GEMINI_API_KEY not configured", last |-> NoErr])
  ELSE GenState("call", caller, 1, isLikelyBearer(rawKey), <<>>, NoErr, "", NoError)

\* generateText going on to the API-key call after a successful bearer call.
genStep_bearerNoReturn(g, models, rawKey, r) ==
  LET modelId == models[g.idx]
      log == Append(g.attempts, [idx |-> g.idx, bearer |-> g.bearer,
                                 ok |-> r.ok /\ ~r.threw,
                                 text |-> IF r.ok /\ ~r.threw THEN r.text ELSE NullText])
      err == AttemptErr(g.bearer, modelId, r)
  IN IF r.threw
     THEN GenState("threw", g.caller, g.idx, g.bearer, log, g.lastErr, "",
                   [type |-> r.error, last |-> NoErr])
     ELSE IF r.ok /\ ~g.bearer
     THEN GenState("returned", g.caller, g.idx, g.bearer, log, g.lastErr,
                   extractTextFromResponse(Is25plus(modelId), r.json, r.text), NoError)
     ELSE IF g.bearer
     THEN GenState("call", g.caller, g.idx, FALSE, log, err, "", NoError)
     ELSE IF g.idx < Len(models)
     THEN GenState("call", g.caller, g.idx + 1, isLikelyBearer(rawKey), log, err, "", NoError)
     ELSE GenState("threw", g.caller, g.idx, FALSE, log, err, "",
                   [type |-> "Gemini API error (all attempts failed)", last |-> err])

\* generateText leaving a model after its bearer call failed.
genStep_skipKey(g, models, rawKey, r) ==
  LET modelId == models[g.idx]
      log == Append(g.attempts, [idx |-> g.idx, bearer |-> g.bearer,
                                 ok |-> r.ok /\ ~r.threw,
                                 text |-> IF r.ok /\ ~r.threw THEN r.text ELSE NullText])
      err == AttemptErr(g.bearer, modelId, r)
  IN IF r.threw
     THEN GenState("threw", g.caller, g.idx, g.bearer, log, g.lastErr, "",
                   [type |-> r.error, last |-> NoErr])
     ELSE IF r.ok
     THEN GenState("returned", g.caller, g.idx, g.bearer, log, g.lastErr,
                   extractTextFromResponse(Is25plus(modelId), r.json, r.text), NoError)
     ELSE IF g.idx < Len(models)
     THEN GenState("call", g.caller, g.idx + 1, isLikelyBearer(rawKey), log, err, "", NoError)
     ELSE GenState("threw", g.caller, g.idx, FALSE, log, err, "",
                   [type |-> "Gemini API error (all attempts failed)", last |-> err])

\* generateText returning an empty text when no candidate is left.
genStep_emptyOnExhaust(g, models, rawKey, r) ==
  LET modelId == models[g.idx]
      log == Append(g.attempts, [idx |-> g.idx, bearer |-> g.bearer,
                                 ok |-> r.ok /\ ~r.threw,
                                 text |-> IF r.ok /\ ~r.threw THEN r.text ELSE NullText])
      err == AttemptErr(g.bearer, modelId, r)
  IN IF r.threw
     THEN GenState("threw", g.caller, g.idx, g.bearer, log, g.lastErr, "",
                   [type |-> r.error, last |-> NoErr])
     ELSE IF r.ok
     THEN GenState("returned", g.caller, g.idx, g.bearer, log, g.lastErr,
                   extractTextFromResponse(Is25plus(modelId), r.json, r.text), NoError)
     ELSE IF g.bearer
     THEN GenState("call", g.caller, g.idx, FALSE, log, err, "", NoError)
     ELSE IF g.idx < Len(models)
     THEN GenState("call", g.caller, g.idx + 1, isLikelyBearer(rawKey), log, err, "", NoError)
     ELSE GenState("returned", g.caller, g.idx, FALSE, log, err, "", NoError)

\* generateText from the return of one callApi to the next await or to its end.
genStep(g, models, rawKey, r) ==
  LET modelId == models[g.idx]
      log == Append(g.attempts, [idx |-> g.idx, bearer |-> g.bearer,
                                 ok |-> r.ok /\ ~r.threw,
                                 text |-> IF r.ok /\ ~r.threw THEN r.text ELSE NullText])
      err == AttemptErr(g.bearer, modelId, r)
  IN IF r.threw
     THEN GenState("threw", g.caller, g.idx, g.bearer, log, g.lastErr, "",
                   [type |-> r.error, last |-> NoErr])
     ELSE IF r.ok
     THEN GenState("returned", g.caller, g.idx, g.bearer, log, g.lastErr,
                   extractTextFromResponse(Is25plus(modelId), r.json, r.text), NoError)
     ELSE IF g.bearer
     THEN GenState("call", g.caller, g.idx, FALSE, log, err, "", NoError)
     ELSE IF g.idx < Len(models)
     THEN GenState("call", g.caller, g.idx + 1, isLikelyBearer(rawKey), log, err, "", NoError)
     ELSE GenState("threw", g.caller, g.idx, FALSE, log, err, "",
                   [type |-> "Gemini API error (all attempts failed)", last |-> err])

(***************************************************************************)
(* src/src/routes/chat.js                                                   *)
(***************************************************************************)
TRANSLATE_CACHE_TTL_MS == 3600000

\* Words are joined by single blanks; lowered.includes(' w ') holds exactly when
\* w is a word with a word on both sides.
LowerWord(w) ==
  CASE w = "Apa" -> "apa" [] w = "ITU" -> "itu" [] OTHER -> w

CommonId ==
  {"dan", "yang", "untuk", "apa", "siapa", "kapan", "mengapa", "bagaimana",
   "ini", "itu", "solusi", "contoh", "apakah"}

isLikelyIndonesian(words) ==
  \E i \in 2..(Len(words) - 1) : LowerWord(words[i]) \in CommonId

RECURSIVE JoinWords(_)
JoinWords(ws) ==
  IF ws = <<>> THEN ""
  ELSE IF Len(ws) = 1 THEN ws[1]
  ELSE ws[1] \o " " \o JoinWords(Tail(ws))

\* String.prototype.trim on the texts the model produces.
Trim(s) ==
  CASE s = " plain words\n" -> "plain words"
    [] s = " " -> ""
    [] OTHER -> s

\* translateCache: key -> {value, ts}
NoEntry == [present |-> FALSE, value |-> "", ts |-> 0]
CacheKey(text) == "t:en:" \o text

\* Date.now() - entry.ts > TRANSLATE_CACHE_TTL_MS
Expired_ge(entry, t) == t - entry.ts >= TRANSLATE_CACHE_TTL_MS

Expired(entry, t) == t - entry.ts > TRANSLATE_CACHE_TTL_MS

\* cacheGetTranslate: the value returned ("" for null) and the cache afterwards.
cacheGetTranslate_noExpiry(cache, key, t) ==
  LET entry == cache[key]
  IN IF ~entry.present THEN [value |-> "", cache |-> cache]
     ELSE [value |-> entry.value, cache |-> cache]

cacheGetTranslate(cache, key, t) ==
  LET entry == cache[key]
  IN IF ~entry.present THEN [value |-> "", cache |-> cache]
     ELSE IF Expired(entry, t)
     THEN [value |-> "", cache |-> [cache EXCEPT ![key] = NoEntry]]
     ELSE [value |-> entry.value, cache |-> cache]

cacheSetTranslate_noStore(cache, key, value, t) == cache

cacheSetTranslate(cache, key, value, t) ==
  [cache EXCEPT ![key] = [present |-> TRUE, value |-> value, ts |-> t]]

\* translateToEnglish after generateText settled (lines 72-93): the string it
\* returns and whether that string is cached.  g is the settled generateText.
translateResult_noFallback(g, text) ==
  LET translated == IF g.pc = "returned" THEN Trim(g.value) ELSE ""
  IN [value |-> translated, cached |-> translated # ""]

translateResult(g, text) ==
  LET translated == IF g.pc = "returned" THEN Trim(g.value) ELSE ""
  IN IF translated # ""
     THEN [value |-> translated, cached |-> TRUE]
     ELSE [value |-> text, cached |-> FALSE]

\* One element of the array the retrieval backend returns: JSON null or an object.
EmptyObj ==
  [isNull |-> FALSE, document_id |-> Undef, doc_id |-> Undef, document |-> Undef,
   document_title |-> Undef, title |-> Undef, name |-> Undef,
   chunk_index |-> Undef, index |-> Undef, similarity |-> Undef, score |-> Undef,
   text |-> Undef, content |-> Undef, body |-> Undef]
NullElem == [EmptyObj EXCEPT !.isNull = TRUE]

\* `doc_${idx}`
DocIdx(idx) == Str(<<"d", "o", "c", "_", DigitChar(idx)>>)

\* a ?? b
Nullish(a, b) == IF a.t = "undef" THEN b ELSE a

\* The object one element is normalized to (idx is the 0-based array index).
NormalizeChunk(c, idx) ==
  [document_id |-> JsOr(c.document_id, JsOr(c.doc_id, JsOr(c.document, DocIdx(idx)))),
   document_title |-> JsOr(c.document_title,
                        JsOr(c.title, JsOr(c.name, JsOr(c.document_id, DocIdx(idx))))),
   chunk_index |-> IF c.chunk_index.t = "num" THEN c.chunk_index
                   ELSE Nullish(c.index, Num(idx)),
   similarity |-> IF c.similarity.t = "str" THEN ParseFloat(c.similarity.s)
                  ELSE IF c.similarity.t = "num" THEN c.similarity
                  ELSE Nullish(c.score, Num(0)),
   text |-> IF c.text.t = "str" THEN c.text
            ELSE JsOr(c.content, JsOr(c.body, Str(<<>>)))]

\* chunks.map(...): reading a property of a null element throws a TypeError.
NormalizeChunks(raw) ==
  IF \E i \in 1..Len(raw) : raw[i].isNull
  THEN [threw |-> TRUE, chunks |-> <<>>]
  ELSE [threw |-> FALSE, chunks |-> [i \in 1..Len(raw) |-> NormalizeChunk(raw[i], i - 1)]]

\* The body of a successful retrieval response and what the handler reads from it.
SearchBody(parses, shape, arr) == [parses |-> parses, shape |-> shape, arr |-> arr]

SearchOutcome(kind, ok, body) == [kind |-> kind, ok |-> ok, body |-> body]

\* The chunk array taken from the retrieval reply (lines 138-164).
ParseSearch_noNested(o) ==
  IF o.kind = "reject" THEN <<>>
  ELSE IF ~o.ok THEN <<>>
  ELSE IF ~o.body.parses THEN <<>>
  ELSE IF o.body.shape = "falsy" THEN <<>>
  ELSE IF o.body.shape = "items" THEN o.body.arr
  ELSE IF o.body.shape = "array" THEN o.body.arr
  ELSE <<>>

ParseSearch(o) ==
  IF o.kind = "reject" THEN <<>>
  ELSE IF ~o.ok THEN <<>>
  ELSE IF ~o.body.parses THEN <<>>
  ELSE IF o.body.shape = "falsy" THEN <<>>
  ELSE IF o.body.shape = "items" THEN o.body.arr
  ELSE IF o.body.shape = "array" THEN o.body.arr
  ELSE IF o.body.shape = "nested" THEN o.body.arr
  ELSE <<>>

\* How a retrieval reply is classed: the fetch rejected, a non-success status,
\* a body that is not JSON, a JSON body.
ReplyClass(o) ==
  IF o.kind = "reject" THEN "reject"
  ELSE IF ~o.ok THEN "http-error"
  ELSE IF ~o.body.parses THEN "unparsable"
  ELSE "json"

\* parseFloat(process.env.SIMILARITY_THRESHOLD || '0.25')
SIMILARITY_THRESHOLD(envThreshold) ==
  ParseFloat(IF envThreshold = <<>> THEN <<"0", ".", "2", "5">> ELSE envThreshold)

\* (chunks[0] && Number(chunks[0].similarity)) || 0
TopSim(cs) ==
  IF cs = <<>> THEN Num(0) ELSE JsOr(ToNumber(cs[1].similarity), Num(0))

\* The grounding test with <= in place of <.
OutOfContext_le(cs, threshold) ==
  cs = <<>> \/ JsLess(TopSim(cs), threshold) \/ TopSim(cs) = threshold

\* The grounding test without the check for an empty sequence.
OutOfContext_noEmpty(cs, threshold) == JsLess(TopSim(cs), threshold)

\* chunks.length === 0 || topSim < SIMILARITY_THRESHOLD
OutOfContext(cs, threshold) == cs = <<>> \/ JsLess(TopSim(cs), threshold)

\* One labelled entry of the context block.
ContextEntry(c, i) ==
  [n |-> i, doc |-> JsOr(c.document_title, c.document_id), idx |-> c.chunk_index,
   sim |-> ToFixed3(JsOr(c.similarity, Num(0)).v), text |-> c.text]

\* contextText serializing the top chunk only.
BuildContext_topOnly(cs, hasContext) ==
  IF hasContext /\ Len(cs) > 0
  THEN IF \E i \in 1..Len(cs) : JsOr(cs[i].similarity, Num(0)).t = "str"
       THEN [threw |-> TRUE, entries |-> <<>>]
       ELSE [threw |-> FALSE, entries |-> <<ContextEntry(cs[1], 1)>>]
  ELSE [threw |-> FALSE, entries |-> <<>>]

\* contextText (lines 190-196): (c.similarity || 0).toFixed throws on a string.
BuildContext(cs, hasContext) ==
  IF hasContext /\ Len(cs) > 0
  THEN IF \E i \in 1..Len(cs) : JsOr(cs[i].similarity, Num(0)).t = "str"
       THEN [threw |-> TRUE, entries |-> <<>>]
       ELSE [threw |-> FALSE, entries |-> [i \in 1..Len(cs) |-> ContextEntry(cs[i], i)]]
  ELSE [threw |-> FALSE, entries |-> <<>>]

\* The prompt (lines 198-204): which template, and what it embeds.
NoPrompt == [template |-> "", context |-> <<>>, note |-> FALSE, question |-> ""]
BuildPrompt(hasContext, entries, questionText) ==
  IF hasContext /\ entries # <<>>
  THEN [template |-> "context", context |-> entries, note |-> FALSE,
        question |-> questionText]
  ELSE [template |-> "no-context", context |-> <<>>, note |-> TRUE,
        question |-> questionText]

\* chunks.slice(0, 3).map(...)
TopChunks_all(cs) ==
  [i \in 1..Len(cs) |->
     [document_id |-> cs[i].document_id,
      document_title |-> JsOr(cs[i].document_title, cs[i].document_id),
      chunk_index |-> cs[i].chunk_index,
      similarity |-> ToNumber(JsOr(cs[i].similarity, Num(0))),
      text |-> cs[i].text]]

TopChunks(cs) ==
  [i \in 1..(IF Len(cs) < 3 THEN Len(cs) ELSE 3) |->
     [document_id |-> cs[i].document_id,
      document_title |-> JsOr(cs[i].document_title, cs[i].document_id),
      chunk_index |-> cs[i].chunk_index,
      similarity |-> ToNumber(JsOr(cs[i].similarity, Num(0))),
      text |-> cs[i].text]]

\* The HTTP response.
NoSaved == [isNull |-> TRUE, chat_id |-> ""]
Response(status, error, detail, answered, reply, cs, top, hasCtx, ooc, saved) ==
  [status |-> status, error |-> error, detail |-> detail, answered |-> answered,
   reply |-> reply, chunks |-> cs, top_chunks |-> top, has_context |-> hasCtx,
   out_of_context |-> ooc, saved |-> saved]
NoResponse == Response(0, "", NoError, FALSE, "", <<>>, <<>>, FALSE, FALSE, NoSaved)
ErrorResponse(status, error, detail) ==
  Response(status, error, detail, FALSE, "", <<>>, <<>>, FALSE, FALSE, NoSaved)

(***************************************************************************)
(* Inputs                                                                   *)
(***************************************************************************)
\* GEMINI_API_KEY: unset, an OAuth token, an API key.
RawKeys == {<<>>, <<"y", "a", "2", "9", ".", "t">>, <<"A", "I", "z", "a">>}

\* GEMINI_MODEL: unset, one of the fallbacks, a fallback spelled differently.
EnvModels ==
  {<<>>, <<"models/", "gemini-2.5", "-flash">>, <<"MODELS/", "Gemini-2.5", "-pro">>}

\* SIMILARITY_THRESHOLD: unset, not a number.
EnvThresholds == {<<>>, <<"x">>}

Questions ==
  {<<>>, <<"what", "is", "photosynthesis">>, <<"Apa", "itu", "fotosintesis">>}

\* The Authorization header: absent, "Bearer " alone, or "Bearer tok".
AuthHeaders == {<<>>, <<"Bearer ">>, <<"Bearer ", "tok">>}

\* header.replace('Bearer ', '')
ReplaceBearer_keep(h) == h

ReplaceBearer(h) ==
  IF \E i \in 1..Len(h) : h[i] = "Bearer "
  THEN LET i == CHOOSE j \in 1..Len(h) : h[j] = "Bearer " /\ \A k \in 1..(j - 1) : h[k] # "Bearer "
       IN SubSeq(h, 1, i - 1) \o SubSeq(h, i + 1, Len(h))
  ELSE h

\* chat_id / session_id of a request: absent, a chat of the caller, a chat of
\* somebody else.
ChatIds == {"", "c1", "c2"}

\* The user the token "tok" belongs to, and the chats in the store at start-up.
Caller == "u1"
ChatRow(id, user) == [id |-> id, user_id |-> user]
InitialChats == {ChatRow("c1", "u1"), ChatRow("c2", "u2")}
NewChatId == "new"

\* A row of the messages table: chats.js writes chat_id / role, index.js
\* session_id / sender.
MessageRow(session, role, content) ==
  [session |-> session, role |-> role, content |-> content]

WithSim(sim) == [EmptyObj EXCEPT !.similarity = sim, !.document_id = Str(<<"d1">>),
                                 !.text = Str(<<"leaf text">>)]

RawChunks ==
  { WithSim(Num(250)),
    [EmptyObj EXCEPT !.similarity = Str(<<"0", ".", "3", "1">>), !.content = Str(<<"c">>)],
    [EmptyObj EXCEPT !.similarity = Str(<<"n", "/", "a">>)],
    [EmptyObj EXCEPT !.score = Str(<<"0", ".", "9">>)],
    EmptyObj,
    NullElem }

RECURSIVE SeqsUpTo(_, _)
SeqsUpTo(S, n) ==
  IF n = 0 THEN {<<>>}
  ELSE LET shorter == SeqsUpTo(S, n - 1)
       IN shorter \cup {Append(q, x) : q \in {r \in shorter : Len(r) = n - 1}, x \in S}

RawArrays == SeqsUpTo(RawChunks, MaxChunks)

SearchOutcomes ==
  {SearchOutcome("reject", FALSE, SearchBody(FALSE, "", <<>>)),
   SearchOutcome("resp", FALSE, SearchBody(FALSE, "", <<>>)),
   SearchOutcome("resp", TRUE, SearchBody(FALSE, "", <<>>)),
   SearchOutcome("resp", TRUE, SearchBody(TRUE, "falsy", <<>>)),
   SearchOutcome("resp", TRUE, SearchBody(TRUE, "other", <<>>))}
    \cup {SearchOutcome("resp", TRUE, SearchBody(TRUE, sh, a)) :
            sh \in {"items", "array", "nested"}, a \in RawArrays}

(***************************************************************************)
(* State                                                                    *)
(***************************************************************************)
VARIABLES
  env,             \* RAW_KEY, GEMINI_MODEL, RAG_WORKER_URL read when the modules load
  now,             \* Date.now()
  translateCache,
  pc,              \* where the handler of POST /api/chat stands
  req,             \* question, token, chat_id of the request
  queryForSearch,
  threshold,       \* SIMILARITY_THRESHOLD as parsed by the request
  chunks,
  has_context,
  out_of_context,
  prompt,
  genText,
  saved,
  res,             \* the response sent
  gen,             \* the generateText call in progress
  searchLog,       \* the replies to the search requests made to the RAG worker
  searchQuery,     \* the query of the search request sent to the RAG worker
  dbCalls,         \* calls made to Supabase by POST /api/chat
  persist,         \* userId and chatId of stage 4 of POST /api/chat
  chatRows,        \* the chats / chat_sessions table
  messages,        \* the messages table, in the order the rows were stored
  writes,          \* the payloads of the message inserts requested
  inflight,        \* message inserts of /chat/ask requested and not settled
  ask,             \* the /chat/ask request and its handler
  tcalls,          \* translateToEnglish calls waiting for generateText
  tlog,            \* what the translateToEnglish calls returned
  searchReply,     \* the reply of the RAG worker, kept where its shapes are examined
  dreq,            \* the request to a document route of index.js and its handler
  dstore,          \* storage objects, documents rows and chunks rows
  docs,            \* the in-memory docs list of routes/admin.js
  proc             \* the request to POST /api/admin/documents/:id/process

vars ==
  <<env, now, translateCache, pc, req, queryForSearch, threshold, chunks, has_context,
    out_of_context, prompt, genText, saved, res, gen, searchLog, searchQuery, dbCalls,
    persist, chatRows, messages, writes, inflight, ask, tcalls, tlog, searchReply,
    dreq, dstore, docs, proc>>

CacheKeys == {CacheKey(JoinWords(q)) : q \in Questions \ {<<>>}}

NoRequest == [question |-> <<>>, authorization |-> <<>>, token |-> <<>>, chat_id |-> ""]

NoPersist == [userId |-> "", chatId |-> ""]

NoReply == SearchOutcome("", FALSE, SearchBody(FALSE, "", <<>>))

\* The /chat/ask handler (index.js): its request, its locals, its response.
AskResponse(status, error, session_id, answer) ==
  [status |-> status, error |-> error, session_id |-> session_id, answer |-> answer]
NoAskResponse == AskResponse(0, "", "", "")
AskIdle(indexer) ==
  [pc |-> "idle", INDEXER_URL |-> indexer, authorization |-> <<>>, question |-> <<>>,
   given |-> "", user |-> "", sessionId |-> "", calls |-> <<>>, res |-> NoAskResponse]

\* A request to a document route of index.js: the route, :id, the uploaded
\* file, the Authorization header; req.user and the role read from profiles;
\* the Supabase and indexer calls made, each with its outcome once settled; the
\* status of the response.  INDEXER_URL and the form of isAdminUser (with the
\* try/catch of the second snapshot, or without) are fixed when the server starts.
DocsIdle(indexer, guarded) ==
  [pc |-> "idle", INDEXER_URL |-> indexer, guarded |-> guarded, route |-> "", id |-> "",
   file |-> "", authorization |-> <<>>, user |-> "", role |-> "", calls |-> <<>>,
   res |-> 0]

\* Storage objects, documents rows (storage_path "" when the row has none) and
\* chunks rows at start-up.
DocRow(id, path) == [id |-> id, storage_path |-> path]
ChunkRow(id, idx) == [document_id |-> id, chunk_index |-> idx]
InitialStore ==
  [objects |-> {"p1"},
   documents |-> {DocRow("d1", "p1"), DocRow("d2", "")},
   chunks |-> {ChunkRow("d1", 0), ChunkRow("d1", 1), ChunkRow("d2", 0)}]

\* null
Null == [t |-> "null", v |-> 0, s |-> <<>>]

\* An entry of docs (routes/admin.js): id, storage_path, status, and whether a
\* Supabase row is attached.
MemDoc(id, path, status, row) ==
  [id |-> id, storage_path |-> path, status |-> status, supabase_row |-> row]
SampleDocs ==
  <<MemDoc(Num(1), Null, "uploaded", FALSE), MemDoc(Num(2), Null, "uploaded", FALSE)>>

NoDoc == MemDoc(Null, Null, "", FALSE)

\* A request to the process route: :id, the document resolved, memIndex
\* (0 for -1), the status of the response; docs as it was when the request
\* came in.  Whether Supabase and RAG_SERVICE_URL are configured is fixed when
\* the server starts.
ProcIdle(supabase, rag) ==
  [pc |-> "idle", supabase |-> supabase, RAG_SERVICE_URL |-> rag, idParam |-> <<>>,
   doc |-> NoDoc, memIndex |-> 0, res |-> 0, before |-> <<>>]

Env(key, model, rag) == [RAW_KEY |-> key, GEMINI_MODEL |-> model, RAG_WORKER_URL |-> rag]

FreshChat ==
  /\ now = 0
  /\ translateCache = [k \in CacheKeys |-> NoEntry]
  /\ req = NoRequest
  /\ queryForSearch = ""
  /\ threshold = NaN
  /\ chunks = <<>>
  /\ has_context = FALSE
  /\ out_of_context = FALSE
  /\ prompt = NoPrompt
  /\ genText = ""
  /\ saved = NoSaved
  /\ res = NoResponse
  /\ gen = GenIdle
  /\ searchLog = <<>>
  /\ searchQuery = ""
  /\ dbCalls = <<>>
  /\ persist = NoPersist
  /\ chatRows = InitialChats
  /\ messages = <<>>
  /\ writes = <<>>
  /\ inflight = {}
  /\ tcalls = {}
  /\ tlog = <<>>
  /\ searchReply = NoReply

Fresh ==
  /\ FreshChat
  /\ dreq = DocsIdle(FALSE, FALSE)
  /\ dstore = InitialStore
  /\ docs = SampleDocs
  /\ proc = ProcIdle(FALSE, FALSE)

\* The server after start-up, GEMINI_MODEL left unset.
Init ==
  /\ env \in {Env(k, <<>>, rag) : k \in RawKeys, rag \in BOOLEAN}
  /\ Fresh
  /\ pc = "idle"
  /\ ask = AskIdle(FALSE)

locals == <<threshold, chunks, has_context, out_of_context, prompt, genText, saved>>
store == <<chatRows, messages, writes, inflight>>
adminSide == <<dreq, dstore, docs, proc>>
others == <<ask, tcalls, tlog, searchReply, adminSide>>

\* `${question}` of the prompt templates (lines 200 and 203).
PromptQuestion_query == queryForSearch
PromptQuestion == JoinWords(req.question)

\* Lines 101-124 up to the first await: validation, then the retrieval query.
\* The Authorization header and chat_id of the request are read by nothing
\* before stage 4, and chat_id only once a reply and a token are there; the
\* model draws them at that point (AnswerDone).
Receive(q) ==
  /\ pc = "idle"
  /\ ask.pc = "idle"
  /\ req' = [req EXCEPT !.question = q]
  /\ UNCHANGED <<env, now, locals, searchLog, searchQuery, dbCalls, persist, store, others>>
  /\ IF q = <<>>
     THEN /\ res' = ErrorResponse(400, "question required", NoError)
          /\ pc' = "done"
          /\ UNCHANGED <<translateCache, queryForSearch, gen>>
     ELSE IF isLikelyIndonesian(q)
     THEN LET got == cacheGetTranslate(translateCache, CacheKey(JoinWords(q)), now)
          IN /\ translateCache' = got.cache
             /\ res' = res
             /\ IF got.value # ""
                THEN /\ queryForSearch' = got.value
                     /\ pc' = "search"
                     /\ gen' = gen
                ELSE /\ queryForSearch' = JoinWords(q)
                     /\ pc' = "translate"
                     /\ gen' = genStart("translate", env.RAW_KEY)
     ELSE /\ queryForSearch' = JoinWords(q)
          /\ pc' = "search"
          /\ UNCHANGED <<translateCache, res, gen>>

\* One callApi of the generateText call in progress, and the loop up to the next.
GenAttempt(o) ==
  /\ gen.pc = "call"
  /\ gen' = genStep(gen, Models(env.GEMINI_MODEL), env.RAW_KEY, callApi(o))
  /\ UNCHANGED <<env, now, translateCache, pc, req, queryForSearch, locals, res,
                 searchLog, searchQuery, dbCalls, persist, store, others>>

\* translateToEnglish after generateText settled (lines 72-93).
TranslateDone ==
  /\ pc = "translate"
  /\ gen.pc \in {"returned", "threw"}
  /\ LET text == JoinWords(req.question)
         r == translateResult(gen, text)
     IN /\ translateCache' = IF r.cached
                              THEN cacheSetTranslate(translateCache, CacheKey(text), r.value, now)
                              ELSE translateCache
        /\ queryForSearch' = r.value
  /\ pc' = "search"
  /\ gen' = GenIdle
  /\ UNCHANGED <<env, now, req, locals, res, searchLog, searchQuery, dbCalls, persist,
                 store, others>>

\* Lines 170-209: normalization, grounding decision, prompt, start of generation.
Ground(raw, envThreshold) ==
  LET norm == NormalizeChunks(raw)
      thr == SIMILARITY_THRESHOLD(envThreshold)
      ooc == OutOfContext(norm.chunks, thr)
      ctx == BuildContext(norm.chunks, ~ooc)
  IN IF norm.threw
     THEN /\ res' = ErrorResponse(500, "TypeError", NoError)
          /\ pc' = "done"
          /\ UNCHANGED <<locals, gen>>
     ELSE /\ chunks' = norm.chunks
          /\ threshold' = thr
          /\ out_of_context' = ooc
          /\ has_context' = ~ooc
          /\ IF ctx.threw
             THEN /\ res' = ErrorResponse(500, "TypeError", NoError)
                  /\ pc' = "done"
                  /\ UNCHANGED <<prompt, gen>>
             ELSE /\ prompt' = BuildPrompt(~ooc, ctx.entries, PromptQuestion)
                  /\ gen' = genStart("answer", env.RAW_KEY)
                  /\ pc' = "generate"
                  /\ res' = res
          /\ UNCHANGED <<genText, saved>>

\* Lines 126-164 with a RAG worker configured: one search request and its reply.
\* queryForSearch is not read after the request is sent; the model drops it.
RetrieveReply(o, envThreshold) ==
  /\ pc = "search"
  /\ env.RAG_WORKER_URL
  /\ searchLog' = Append(searchLog, ReplyClass(o))
  /\ searchQuery' = queryForSearch
  /\ queryForSearch' = ""
  /\ Ground(ParseSearch(o), envThreshold)
  /\ UNCHANGED <<env, now, translateCache, req, dbCalls, persist, store, ask, tcalls, tlog,
                 adminSide>>

Retrieve(o, envThreshold) ==
  /\ RetrieveReply(o, envThreshold)
  /\ searchReply' = searchReply

\* Lines 165-168: no worker configured.
NoRetrieve(envThreshold) ==
  /\ pc = "search"
  /\ ~env.RAG_WORKER_URL
  /\ queryForSearch' = ""
  /\ Ground(<<>>, envThreshold)
  /\ UNCHANGED <<env, now, translateCache, req, searchLog, searchQuery, dbCalls, persist,
                 store, others>>

\* The 200 response (lines 264-283).
Answer(reply, savedValue) ==
  Response(200, "", NoError, TRUE, reply, chunks, TopChunks(chunks), has_context,
           out_of_context, savedValue)

\* Lines 207-228 after generateText settled: 502 on failure; with no token the
\* persistence stage is skipped and the answer is sent; with a token getUser is
\* called.  The threshold is not read after the grounding decision; the model
\* drops it here.
AnswerDone(hdr, cid) ==
  /\ pc = "generate"
  /\ gen.pc \in {"returned", "threw"}
  /\ (gen.pc = "threw" \/ ReplaceBearer(hdr) = <<>>) => cid = ""
  /\ req' = [req EXCEPT !.authorization = hdr, !.token = ReplaceBearer(hdr),
                        !.chat_id = cid]
  /\ gen' = GenIdle
  /\ threshold' = NaN
  /\ IF gen.pc = "threw"
     THEN /\ res' = ErrorResponse(502, "Generation service error", gen.error)
          /\ pc' = "done"
          /\ UNCHANGED <<genText, dbCalls>>
     ELSE /\ genText' = gen.value
          /\ IF ReplaceBearer(hdr) = <<>>
             THEN /\ res' = Answer(gen.value, NoSaved)
                  /\ pc' = "done"
                  /\ dbCalls' = dbCalls
             ELSE /\ res' = res
                  /\ pc' = "save"
                  /\ dbCalls' = Append(dbCalls, "auth.getUser")
  /\ UNCHANGED <<env, now, translateCache, queryForSearch, chunks, has_context,
                 out_of_context, prompt, saved, searchLog, searchQuery, persist,
                 store, others>>

\* What a Supabase call does: it resolves with data, resolves with an error, or
\* rejects.
DbOutcomes == {"ok", "err", "throw"}

\* messagesPayload (lines 247-250).
messagesPayload_userOnly(chatId, question, answer) ==
  <<MessageRow(chatId, "user", question)>>

messagesPayload(chatId, question, answer) ==
  <<MessageRow(chatId, "user", question), MessageRow(chatId, "assistant", answer)>>

\* Lines 245-251 up to the await: with a chatId the two messages are sent in
\* one insert; without one the answer is sent with saved null.
InsertOrAnswer_noWait(chatId) ==
  IF chatId # ""
  THEN /\ pc' = "save-msgs"
       /\ dbCalls' = Append(dbCalls, "insert messages")
       /\ writes' = Append(writes, messagesPayload(chatId, JoinWords(req.question), genText))
       /\ saved' = saved
       /\ res' = Answer(genText, NoSaved)
  ELSE /\ pc' = "done"
       /\ saved' = NoSaved
       /\ res' = Answer(genText, NoSaved)
       /\ UNCHANGED <<dbCalls, writes>>

InsertOrAnswer(chatId) ==
  IF chatId # ""
  THEN /\ pc' = "save-msgs"
       /\ dbCalls' = Append(dbCalls, "insert messages")
       /\ writes' = Append(writes, messagesPayload(chatId, JoinWords(req.question), genText))
       /\ UNCHANGED <<saved, res>>
  ELSE /\ pc' = "done"
       /\ saved' = NoSaved
       /\ res' = Answer(genText, NoSaved)
       /\ UNCHANGED <<dbCalls, writes>>

\* Lines 228-243 after getUser settled.  An error or a rejection ends the stage;
\* otherwise the chat row is inserted when no chat_id was given, and the
\* messages are sent to the chat_id of the request when one was given.
GetUserDone(u) ==
  /\ pc = "save"
  /\ IF u # "ok"
     THEN /\ pc' = "done"
          /\ saved' = NoSaved
          /\ res' = Answer(genText, NoSaved)
          /\ UNCHANGED <<persist, dbCalls, writes>>
     ELSE IF req.chat_id = ""
     THEN /\ persist' = [userId |-> Caller, chatId |-> ""]
          /\ pc' = "save-chat"
          /\ dbCalls' = Append(dbCalls, "insert chats")
          /\ UNCHANGED <<saved, res, writes>>
     ELSE /\ persist' = [userId |-> Caller, chatId |-> req.chat_id]
          /\ InsertOrAnswer(req.chat_id)
  /\ UNCHANGED <<env, now, translateCache, req, queryForSearch, threshold, chunks,
                 has_context, out_of_context, prompt, genText, gen, searchLog,
                 searchQuery, chatRows, messages, inflight, others>>

\* Lines 235-251 after the insert into chats settled.
CreateChatDone(c) ==
  /\ pc = "save-chat"
  /\ IF c = "throw"
     THEN /\ pc' = "done"
          /\ saved' = NoSaved
          /\ res' = Answer(genText, NoSaved)
          /\ UNCHANGED <<persist, chatRows, dbCalls, writes>>
     ELSE LET chatId == IF c = "ok" THEN NewChatId ELSE ""
          IN /\ persist' = [persist EXCEPT !.chatId = chatId]
             /\ chatRows' = IF c = "ok"
                            THEN chatRows \cup {ChatRow(NewChatId, persist.userId)}
                            ELSE chatRows
             /\ InsertOrAnswer(chatId)
  /\ UNCHANGED <<env, now, translateCache, req, queryForSearch, threshold, chunks,
                 has_context, out_of_context, prompt, genText, gen, searchLog,
                 searchQuery, messages, inflight, others>>

\* Lines 251-283 after the insert into messages settled: saved, then the answer.
InsertMessagesDone(m) ==
  /\ pc = "save-msgs"
  /\ LET sv == IF m = "ok" THEN [isNull |-> FALSE, chat_id |-> persist.chatId]
               ELSE NoSaved
     IN /\ saved' = sv
        /\ res' = Answer(genText, sv)
  /\ messages' = IF m = "ok" THEN messages \o writes[Len(writes)] ELSE messages
  /\ pc' = "done"
  /\ UNCHANGED <<env, now, translateCache, req, queryForSearch, threshold, chunks,
                 has_context, out_of_context, prompt, genText, gen, searchLog,
                 searchQuery, dbCalls, persist, chatRows, writes, inflight, others>>

Next ==
  \/ \E q \in Questions : Receive(q)
  \/ \E o \in ChatGenOutcomes : GenAttempt(o)
  \/ TranslateDone
  \/ \E o \in SearchOutcomes, t \in EnvThresholds : Retrieve(o, t)
  \/ \E t \in EnvThresholds : NoRetrieve(t)
  \/ \E hdr \in AuthHeaders, cid \in ChatIds : AnswerDone(hdr, cid)
  \/ \E u \in DbOutcomes : GetUserDone(u)
  \/ \E c \in DbOutcomes : CreateChatDone(c)
  \/ \E m \in DbOutcomes : InsertMessagesDone(m)

Spec == Init /\ [][Next]_vars

(***************************************************************************)
(* generateText called on its own, over every key, model and reply.         *)
(***************************************************************************)
InitGen ==
  /\ env \in {Env(k, m, FALSE) : k \in RawKeys, m \in EnvModels}
  /\ Fresh
  /\ pc = "direct"
  /\ ask = AskIdle(FALSE)

\* generateText(prompt, opts) up to its first await.
CallGenerate ==
  /\ pc = "direct"
  /\ gen.pc = "idle"
  /\ gen' = genStart("direct", env.RAW_KEY)
  /\ UNCHANGED <<env, now, translateCache, pc, req, queryForSearch, locals, res,
                 searchLog, searchQuery, dbCalls, persist, store, others>>

NextGen ==
  \/ CallGenerate
  \/ \E o \in GenFetchOutcomes : GenAttempt(o)

SpecGen == InitGen /\ [][NextGen]_vars

(***************************************************************************)
(* src/src/index.js: POST /chat/ask behind requireAuth.                     *)
(***************************************************************************)
\* getToken (lines 130-133): the header after 'Bearer ', or null.
getToken(h) ==
  IF h # <<>> /\ h[1] = "Bearer " THEN Tail(h) ELSE <<>>

\* session_id of a request: as chat_id, or the id of no row.
AskSessionIds == ChatIds \cup {"c9"}

\* What the indexer answers to POST /search: the fetch rejects, a non-2xx
\* status, a body without ok, no items, one item.
AskSearchOutcomes == {"reject", "http-error", "not-ok", "empty", "items"}

\* What model.generateContent does: a text, no text in the first part, a throw.
AskGenOutcomes == {"text", "no-text", "throw"}

askChat ==
  <<env, now, translateCache, pc, req, queryForSearch, locals, res, gen, searchLog,
    searchQuery, dbCalls, persist>>

AskEnd(status, error) ==
  [ask EXCEPT !.pc = "done", !.res = AskResponse(status, error, "", "")]

\* requireAuth up to its await (lines 135-139).
AskReceive(hdr, q, sid) ==
  /\ ask.pc = "idle"
  /\ pc = "idle"
  /\ LET r == [ask EXCEPT !.authorization = hdr, !.question = q, !.given = sid]
     IN IF getToken(hdr) = <<>>
        THEN ask' = [r EXCEPT !.pc = "done",
                              !.res = AskResponse(401, "Unauthorized", "", "")]
        ELSE ask' = [r EXCEPT !.pc = "auth", !.calls = <<"auth.getUser">>]
  /\ UNCHANGED <<askChat, store, tcalls, tlog, searchReply, adminSide>>

\* Lines 140-146, then the handler up to its first await (lines 411-435):
\* validation, then the session lookup or the session insert.
AskNext_lateValidation(a) ==
  /\ ask.pc = "auth"
  /\ IF a = "err" THEN ask' = AskEnd(401, "Invalid token")
     ELSE IF a = "throw" THEN ask' = AskEnd(401, "Auth failed")
     ELSE IF ~ask.INDEXER_URL THEN ask' = AskEnd(500, "INDEXER_URL not set")
     ELSE IF ask.given # ""
     THEN ask' = [ask EXCEPT !.pc = "lookup", !.user = Caller, !.sessionId = ask.given,
                             !.calls = Append(@, "select chat_sessions")]
     ELSE ask' = [ask EXCEPT !.pc = "create", !.user = Caller,
                             !.calls = Append(@, "insert chat_sessions")]
  /\ UNCHANGED <<askChat, store, tcalls, tlog, searchReply, adminSide>>

AskNext(a) ==
  /\ ask.pc = "auth"
  /\ IF a = "err" THEN ask' = AskEnd(401, "Invalid token")
     ELSE IF a = "throw" THEN ask' = AskEnd(401, "Auth failed")
     ELSE IF ask.question = <<>>
     THEN ask' = [AskEnd(400, "question is required") EXCEPT !.user = Caller]
     ELSE IF ~ask.INDEXER_URL
     THEN ask' = [AskEnd(500, "INDEXER_URL not set") EXCEPT !.user = Caller]
     ELSE IF ask.given # ""
     THEN ask' = [ask EXCEPT !.pc = "lookup", !.user = Caller, !.sessionId = ask.given,
                             !.calls = Append(@, "select chat_sessions")]
     ELSE ask' = [ask EXCEPT !.pc = "create", !.user = Caller,
                             !.calls = Append(@, "insert chat_sessions")]
  /\ UNCHANGED <<askChat, store, tcalls, tlog, searchReply, adminSide>>

\* Lines 440-450: the insert of the user message is requested and not awaited,
\* then the search request is sent.
AskProceed(sessionId) ==
  LET row == MessageRow(sessionId, "user", JoinWords(ask.question))
  IN /\ inflight' = inflight \cup {row}
     /\ writes' = Append(writes, <<row>>)
     /\ ask' = [ask EXCEPT !.pc = "search", !.sessionId = sessionId,
                           !.calls = @ \o <<"insert messages", "search">>]

\* Lines 422-428 after the select settled: 404 without a row, 403 for the row of
\* another user.
AskLookupDone(o) ==
  /\ ask.pc = "lookup"
  /\ o = "ok" => \E r \in chatRows : r.id = ask.given
  /\ IF o = "throw"
     THEN /\ ask' = AskEnd(500, "Error")
          /\ UNCHANGED <<inflight, writes>>
     ELSE IF o = "err"
     THEN /\ ask' = AskEnd(404, "session not found")
          /\ UNCHANGED <<inflight, writes>>
     ELSE IF \E r \in chatRows : r.id = ask.given /\ r.user_id # ask.user
     THEN /\ ask' = AskEnd(403, "Forbidden")
          /\ UNCHANGED <<inflight, writes>>
     ELSE AskProceed(ask.given)
  /\ UNCHANGED <<askChat, chatRows, messages, tcalls, tlog, searchReply, adminSide>>

\* Lines 431-437 after the insert into chat_sessions settled.
AskCreateDone(o) ==
  /\ ask.pc = "create"
  /\ IF o = "ok"
     THEN /\ chatRows' = chatRows \cup {ChatRow(NewChatId, ask.user)}
          /\ AskProceed(NewChatId)
     ELSE /\ ask' = AskEnd(500, IF o = "err" THEN "nErr.message" ELSE "Error")
          /\ UNCHANGED <<chatRows, inflight, writes>>
  /\ UNCHANGED <<askChat, messages, tcalls, tlog, searchReply, adminSide>>

\* Lines 510-515: the insert of the assistant message is requested and not
\* awaited, and the response is sent.
AskFinish(from, answer) ==
  LET row == MessageRow(from.sessionId, "assistant", answer)
  IN /\ inflight' = inflight \cup {row}
     /\ writes' = Append(writes, <<row>>)
     /\ ask' = [from EXCEPT !.pc = "done", !.calls = Append(@, "insert messages"),
                            !.res = AskResponse(200, "", from.sessionId, answer)]

\* Lines 483-500 up to the await of generateContent.
AskGenerate ==
  IF env.RAW_KEY = <<>>
  THEN AskFinish(ask, "GEMINI_API_KEY/SDK belum di-set. Berikut konteks terdekat.")
  ELSE /\ ask' = [ask EXCEPT !.pc = "gen", !.calls = Append(@, "generateContent")]
       /\ UNCHANGED <<inflight, writes>>

\* Lines 451-466 after the search settled.
AskSearchDone(o) ==
  /\ ask.pc = "search"
  /\ CASE o = "reject" ->
            /\ ask' = AskEnd(500, "Error")
            /\ UNCHANGED <<inflight, writes>>
       [] o \in {"http-error", "not-ok"} ->
            /\ ask' = AskEnd(502, "retrieval_failed")
            /\ UNCHANGED <<inflight, writes>>
       [] o = "items" ->
            /\ ask' = [ask EXCEPT !.pc = "titles", !.calls = Append(@, "select documents")]
            /\ UNCHANGED <<inflight, writes>>
       [] OTHER -> AskGenerate
  /\ UNCHANGED <<askChat, chatRows, messages, tcalls, tlog, searchReply, adminSide>>

\* Lines 461-500 after the select of the titles settled.
AskTitlesDone(o) ==
  /\ ask.pc = "titles"
  /\ IF o = "throw"
     THEN /\ ask' = AskEnd(500, "Error")
          /\ UNCHANGED <<inflight, writes>>
     ELSE AskGenerate
  /\ UNCHANGED <<askChat, chatRows, messages, tcalls, tlog, searchReply, adminSide>>

\* Lines 500-515 after generateContent settled.
AskGenDone(o) ==
  /\ ask.pc = "gen"
  /\ AskFinish(ask, CASE o = "text" -> "jawaban"
                      [] o = "no-text" -> "Tidak ditemukan di materi."
                      [] OTHER -> "Maaf, terjadi kesalahan saat memanggil model.")
  /\ UNCHANGED <<askChat, chatRows, messages, tcalls, tlog, searchReply, adminSide>>

\* A message insert requested by /chat/ask settles in the store: the row is
\* appended, or the insert fails and the failure is ignored (lines 443, 513).
StoreInsert(o) ==
  /\ \E row \in inflight :
       /\ inflight' = inflight \ {row}
       /\ messages' = IF o = "ok" THEN Append(messages, row) ELSE messages
  /\ UNCHANGED <<askChat, chatRows, writes, ask, tcalls, tlog, searchReply, adminSide>>

\* A server without RAG worker that takes one request, to POST /api/chat or to
\* POST /chat/ask (AskReceive and Receive each wait for the other handler to be
\* idle).
InitAsk ==
  /\ env \in {Env(k, <<>>, FALSE) : k \in RawKeys}
  /\ Fresh
  /\ pc = "idle"
  /\ ask \in {AskIdle(ix) : ix \in BOOLEAN}

NextAsk ==
  \/ \E hdr \in AuthHeaders, q \in Questions, sid \in AskSessionIds :
       AskReceive(hdr, q, sid)
  \/ \E a \in DbOutcomes : AskNext(a)
  \/ \E o \in DbOutcomes : AskLookupDone(o)
  \/ \E o \in DbOutcomes : AskCreateDone(o)
  \/ \E o \in AskSearchOutcomes : AskSearchDone(o)
  \/ \E o \in DbOutcomes : AskTitlesDone(o)
  \/ \E o \in AskGenOutcomes : AskGenDone(o)
  \/ \E o \in {"ok", "err"} : StoreInsert(o)
  \/ \E q \in Questions : Receive(q)
  \/ \E o \in ChatGenOutcomes : GenAttempt(o)
  \/ TranslateDone
  \/ \E t \in EnvThresholds : NoRetrieve(t)
  \/ \E hdr \in AuthHeaders, cid \in ChatIds : AnswerDone(hdr, cid)
  \/ \E u \in DbOutcomes : GetUserDone(u)
  \/ \E c \in DbOutcomes : CreateChatDone(c)
  \/ \E m \in DbOutcomes : InsertMessagesDone(m)

SpecAsk == InitAsk /\ [][NextAsk]_vars

(***************************************************************************)
(* POST /api/chat with a RAG worker, a question in English and no            *)
(* Authorization header, over longer replies of the worker in every shape.  *)
(***************************************************************************)
\* Elements of the reply: every field the handler wants; a string similarity
\* and the text under content; a string score and nothing else.
ReplyChunks ==
  { WithSim(Num(250)),
    [EmptyObj EXCEPT !.similarity = Str(<<"0", ".", "3", "1">>), !.content = Str(<<"c">>)],
    [EmptyObj EXCEPT !.score = Str(<<"0", ".", "9">>)] }

ReplyArrays == SeqsUpTo(ReplyChunks, MaxReplyChunks)

\* The JSON bodies: {items: [...]}, [...], {items: {results: [...]}},
\* {data: [...]}, null, and replies without a JSON body.
ReplyOutcomes ==
  {SearchOutcome("reject", FALSE, SearchBody(FALSE, "", <<>>)),
   SearchOutcome("resp", FALSE, SearchBody(FALSE, "", <<>>)),
   SearchOutcome("resp", TRUE, SearchBody(FALSE, "", <<>>)),
   SearchOutcome("resp", TRUE, SearchBody(TRUE, "falsy", <<>>))}
    \cup {SearchOutcome("resp", TRUE, SearchBody(TRUE, sh, a)) :
            sh \in {"items", "array", "nested", "data"}, a \in ReplyArrays}

ReplyQuestions == {<<"what", "is", "photosynthesis">>}

\* Lines 126-209 as Retrieve, the reply kept.
RetrieveKept(o) ==
  /\ RetrieveReply(o, <<>>)
  /\ searchReply' = o

InitReply ==
  /\ env = Env(<<"A", "I", "z", "a">>, <<>>, TRUE)
  /\ Fresh
  /\ pc = "idle"
  /\ ask = AskIdle(FALSE)

NextReply ==
  \/ \E q \in ReplyQuestions : Receive(q)
  \/ \E o \in ReplyOutcomes : RetrieveKept(o)
  \/ \E o \in ChatGenOutcomes : GenAttempt(o)
  \/ AnswerDone(<<>>, "")

SpecReply == InitReply /\ [][NextReply]_vars

(***************************************************************************)
(* src/src/index.js: the document routes behind requireAuth and            *)
(* requireAdmin, one request at a time.                                     *)
(***************************************************************************)
DocRoutes == {"upload", "list", "get", "url", "delete", "chunks", "preview", "rebuild"}

\* :id of the request: two documents of the store and the id of none.
DocIds == {"d1", "d2", "d9"}

\* req.file: none, a text file, a PDF.
DocFiles == {"none", "text/plain", "application/pdf"}

\* The role read from profiles: admin, another role, no row (or an error), or
\* the query rejects.
RoleOutcomes == {"admin", "user", "err", "throw"}

\* What the indexer answers to a rebuild request.
IndexerOutcomes == {"200", "404", "500", "reject"}
IndexerStatus(o) == CASE o = "200" -> 200 [] o = "404" -> 404 [] OTHER -> 500

\* The storage path and the row of an upload.
NewPath == "p-new"
NewDocId == "d-new"

chatSide == <<askChat, store, ask, tcalls, tlog, searchReply>>

DocsCall(r, call, nextPc) ==
  [r EXCEPT !.pc = nextPc, !.calls = Append(@, [call |-> call, out |-> ""])]
DocsSettle(r, o) == [r EXCEPT !.calls[Len(r.calls)].out = o]
\* jsonErr / jsonOk / res.json
DocsEnd(r, status) == [r EXCEPT !.pc = "done", !.res = status]

\* The row documents.select(...).eq('id', id).single() finds.
FoundDoc(id) == CHOOSE d \in dstore.documents : d.id = id

\* requireAuth up to its await (lines 135-139).
DocsReceive(route, hdr, id, file) ==
  /\ dreq.pc = "idle"
  /\ route \notin {"get", "url", "delete", "chunks", "preview", "rebuild"} => id = "d1"
  /\ route # "upload" => file = "none"
  /\ LET r == [dreq EXCEPT !.route = route, !.authorization = hdr, !.id = id, !.file = file]
     IN IF getToken(hdr) = <<>>
        THEN dreq' = DocsEnd(r, 401)
        ELSE dreq' = DocsCall(r, "auth.getUser", "auth")
  /\ UNCHANGED <<chatSide, dstore, docs, proc>>

\* requireAuth after getUser settled (lines 139-145), then requireAdmin up to
\* the await of isAdminUser (lines 159-161).
DocsAuthDone(o) ==
  /\ dreq.pc = "auth"
  /\ LET r == DocsSettle(dreq, o)
     IN IF o # "ok"
        THEN dreq' = DocsEnd(r, 401)
        ELSE dreq' = DocsCall([r EXCEPT !.user = Caller], "select profiles", "admin")
  /\ UNCHANGED <<chatSide, dstore, docs, proc>>

\* The handler of the route up to its first await.
DocsHandler(r) ==
  CASE r.route = "upload" ->
         IF r.file = "none" THEN DocsEnd(r, 400)
         ELSE IF r.file # "application/pdf" THEN DocsEnd(r, 400)
         ELSE DocsCall(r, "storage.upload", "up-storage")
    [] r.route \in {"list", "get"} -> DocsCall(r, "select documents", "read")
    [] r.route \in {"chunks", "preview"} -> DocsCall(r, "select chunks", "read")
    [] r.route = "url" -> DocsCall(r, "select documents", "url-select")
    [] r.route = "delete" -> DocsCall(r, "select documents", "del-select")
    [] OTHER ->
         IF ~r.INDEXER_URL THEN DocsEnd(r, 500)
         ELSE DocsCall(r, "select documents", "rb-select")

\* isAdminUser (lines 149-157): data.role === 'admin'.
IsAdmin_any(role) == role # "throw"

IsAdmin(role) == role = "admin"

\* requireAdmin after isAdminUser settled (lines 161-164).  Where isAdminUser
\* has no try/catch (first snapshot) a rejected query rejects requireAdmin:
\* Express 4 sends nothing (status 0), Express 5 answers 500.
DocsAdminDone(role, express5) ==
  /\ dreq.pc = "admin"
  /\ LET r == [DocsSettle(dreq, role) EXCEPT !.role = IF role = "throw" THEN "" ELSE role]
     IN IF role = "throw" /\ ~dreq.guarded
        THEN dreq' = DocsEnd(r, IF express5 THEN 500 ELSE 0)
        ELSE IF ~IsAdmin(role)
        THEN dreq' = DocsEnd(r, 403)
        ELSE dreq' = DocsHandler(r)
  /\ UNCHANGED <<chatSide, dstore, docs, proc>>

\* POST /documents/upload after the storage upload settled (lines 229-241).
DocsUploadStored(o) ==
  /\ dreq.pc = "up-storage"
  /\ LET r == DocsSettle(dreq, o)
     IN IF o = "ok"
        THEN /\ dstore' = [dstore EXCEPT !.objects = @ \cup {NewPath}]
             /\ dreq' = DocsCall(r, "insert documents", "up-insert")
        ELSE /\ dreq' = DocsEnd(r, 500)
             /\ dstore' = dstore
  /\ UNCHANGED <<chatSide, docs, proc>>

\* ... after the insert of the row settled (lines 242-244).
DocsUploadInserted(o) ==
  /\ dreq.pc = "up-insert"
  /\ LET r == DocsSettle(dreq, o)
     IN IF o = "ok"
        THEN /\ dstore' = [dstore EXCEPT !.documents = @ \cup {DocRow(NewDocId, NewPath)}]
             /\ dreq' = DocsEnd(r, 200)
        ELSE /\ dreq' = DocsEnd(r, 500)
             /\ dstore' = dstore
  /\ UNCHANGED <<chatSide, docs, proc>>

\* GET /documents, /documents/:id, /documents/:id/chunks and
\* /documents/:id/preview after their select settled (lines 253-266, 272-280,
\* 340-350, 358-369; the outcome of GET /documents is the one after its retry
\* without the order).
DocsReadDone(o) ==
  /\ dreq.pc = "read"
  /\ (dreq.route = "get" /\ o = "ok") => \E d \in dstore.documents : d.id = dreq.id
  /\ LET r == DocsSettle(dreq, o)
     IN dreq' = DocsEnd(r, IF o = "ok" THEN 200
                           ELSE IF o = "err" /\ dreq.route = "get" THEN 404
                           ELSE 500)
  /\ UNCHANGED <<chatSide, dstore, docs, proc>>

\* GET /documents/:id/url after the select settled (lines 286-295).
DocsUrlFound(o) ==
  /\ dreq.pc = "url-select"
  /\ o = "ok" => \E d \in dstore.documents : d.id = dreq.id
  /\ LET r == DocsSettle(dreq, o)
     IN dreq' = IF o = "throw" THEN DocsEnd(r, 500)
                ELSE IF o = "err" THEN DocsEnd(r, 404)
                ELSE IF FoundDoc(dreq.id).storage_path = "" THEN DocsEnd(r, 400)
                ELSE DocsCall(r, "storage.createSignedUrl", "url-sign")
  /\ UNCHANGED <<chatSide, dstore, docs, proc>>

\* ... after createSignedUrl settled (lines 297-306): the signed URL, or the
\* public one.
DocsUrlSigned(o) ==
  /\ dreq.pc = "url-sign"
  /\ dreq' = DocsEnd(DocsSettle(dreq, o), IF o = "throw" THEN 500 ELSE 200)
  /\ UNCHANGED <<chatSide, dstore, docs, proc>>

\* DELETE /documents/:id after the select settled (lines 313-322): 404, or the
\* removal of the storage object when the row has a storage_path, or the
\* deletion of the chunks.
DocsDeleteFound(o) ==
  /\ dreq.pc = "del-select"
  /\ o = "ok" => \E d \in dstore.documents : d.id = dreq.id
  /\ LET r == DocsSettle(dreq, o)
     IN dreq' = IF o = "throw" THEN DocsEnd(r, 500)
                ELSE IF o = "err" THEN DocsEnd(r, 404)
                ELSE IF FoundDoc(dreq.id).storage_path # ""
                THEN DocsCall(r, "storage.remove", "del-storage")
                ELSE DocsCall(r, "delete chunks", "del-chunks")
  /\ UNCHANGED <<chatSide, dstore, docs, proc>>

\* What the handler does once storage.remove resolved with an error.
AfterStorageError(r) == DocsCall(r, "delete chunks", "del-chunks")

\* ... after storage.remove settled (lines 318-322): an error is logged and
\* the deletion goes on.
DocsStorageRemoved(o) ==
  /\ dreq.pc = "del-storage"
  /\ LET r == DocsSettle(dreq, o)
     IN CASE o = "ok" ->
               /\ dstore' = [dstore EXCEPT !.objects = @ \ {FoundDoc(dreq.id).storage_path}]
               /\ dreq' = DocsCall(r, "delete chunks", "del-chunks")
          [] o = "err" ->
               /\ dstore' = dstore
               /\ dreq' = AfterStorageError(r)
          [] OTHER ->
               /\ dstore' = dstore
               /\ dreq' = DocsEnd(r, 500)
  /\ UNCHANGED <<chatSide, docs, proc>>

\* What the handler does once the deletion of the chunks resolved with an error.
AfterChunksError_goOn(r) == DocsCall(r, "delete documents", "del-row")

AfterChunksError(r) == DocsEnd(r, 500)

\* ... after the deletion of the chunks settled (lines 322-325).
DocsChunksDeleted(o) ==
  /\ dreq.pc = "del-chunks"
  /\ LET r == DocsSettle(dreq, o)
     IN CASE o = "ok" ->
               /\ dstore' = [dstore EXCEPT
                               !.chunks = {c \in @ : c.document_id # dreq.id}]
               /\ dreq' = DocsCall(r, "delete documents", "del-row")
          [] o = "err" ->
               /\ dstore' = dstore
               /\ dreq' = AfterChunksError(r)
          [] OTHER ->
               /\ dstore' = dstore
               /\ dreq' = DocsEnd(r, 500)
  /\ UNCHANGED <<chatSide, docs, proc>>

\* ... after the deletion of the row settled (lines 325-328).
DocsRowDeleted(o) ==
  /\ dreq.pc = "del-row"
  /\ LET r == DocsSettle(dreq, o)
     IN IF o = "ok"
        THEN /\ dstore' = [dstore EXCEPT !.documents = {d \in @ : d.id # dreq.id}]
             /\ dreq' = DocsEnd(r, 200)
        ELSE /\ dstore' = dstore
             /\ dreq' = DocsEnd(r, 500)
  /\ UNCHANGED <<chatSide, docs, proc>>

\* POST /documents/rebuild/:id after the select settled (lines 377-387).
DocsRebuildFound(o) ==
  /\ dreq.pc = "rb-select"
  /\ o = "ok" => \E d \in dstore.documents : d.id = dreq.id
  /\ LET r == DocsSettle(dreq, o)
     IN dreq' = IF o = "throw" THEN DocsEnd(r, 500)
                ELSE IF o = "err" THEN DocsEnd(r, 404)
                ELSE IF FoundDoc(dreq.id).storage_path = "" THEN DocsEnd(r, 400)
                ELSE DocsCall(r, "indexer /process/document", "rb-fetch")
  /\ UNCHANGED <<chatSide, dstore, docs, proc>>

\* ... after the indexer answered (lines 389-401): the older endpoint is tried
\* on a 404, any other status is passed on.
DocsRebuildFetched(o) ==
  /\ dreq.pc = "rb-fetch"
  /\ LET r == DocsSettle(dreq, o)
     IN dreq' = IF o = "404" THEN DocsCall(r, "indexer /embed/document", "rb-fallback")
                ELSE DocsEnd(r, IndexerStatus(o))
  /\ UNCHANGED <<chatSide, dstore, docs, proc>>

\* ... after the older endpoint answered (lines 398-405).
DocsRebuildFallback(o) ==
  /\ dreq.pc = "rb-fallback"
  /\ dreq' = DocsEnd(DocsSettle(dreq, o), IndexerStatus(o))
  /\ UNCHANGED <<chatSide, dstore, docs, proc>>

InitDocs ==
  /\ env = Env(<<"A", "I", "z", "a">>, <<>>, FALSE)
  /\ FreshChat
  /\ pc = "idle"
  /\ ask = AskIdle(FALSE)
  /\ dreq \in {DocsIdle(ix, g) : ix \in BOOLEAN, g \in BOOLEAN}
  /\ dstore = InitialStore
  /\ docs = SampleDocs
  /\ proc = ProcIdle(FALSE, FALSE)

NextDocs ==
  \/ \E route \in DocRoutes, hdr \in AuthHeaders, id \in DocIds, file \in DocFiles :
       DocsReceive(route, hdr, id, file)
  \/ \E o \in DbOutcomes : DocsAuthDone(o)
  \/ \E role \in RoleOutcomes, express5 \in BOOLEAN : DocsAdminDone(role, express5)
  \/ \E o \in DbOutcomes : DocsUploadStored(o)
  \/ \E o \in DbOutcomes : DocsUploadInserted(o)
  \/ \E o \in DbOutcomes : DocsReadDone(o)
  \/ \E o \in DbOutcomes : DocsUrlFound(o)
  \/ \E o \in DbOutcomes : DocsUrlSigned(o)
  \/ \E o \in DbOutcomes : DocsDeleteFound(o)
  \/ \E o \in DbOutcomes : DocsStorageRemoved(o)
  \/ \E o \in DbOutcomes : DocsChunksDeleted(o)
  \/ \E o \in DbOutcomes : DocsRowDeleted(o)
  \/ \E o \in DbOutcomes : DocsRebuildFound(o)
  \/ \E o \in IndexerOutcomes : DocsRebuildFetched(o)
  \/ \E o \in IndexerOutcomes : DocsRebuildFallback(o)

SpecDocs == InitDocs /\ [][NextDocs]_vars

(***************************************************************************)
(* src/src/routes/admin.js: the in-memory docs list, uploads that extend    *)
(* it, and POST /api/admin/documents/:id/process, one request at a time.    *)
(***************************************************************************)
\* String(x)
JsString(x) ==
  CASE x.t = "str" -> x.s
    [] x.t = "num" -> <<DigitChar(x.v)>>
    [] x.t = "null" -> <<"null">>
    [] OTHER -> <<"undefined">>

\* isUuid(val): the model writes a UUID as "u" and a digit.
isUuid(cs) == Len(cs) = 2 /\ cs[1] = "u"

\* Number(idParam) is not NaN.
IsNumeric(cs) == Len(cs) = 1 /\ cs[1] \in Digits

\* nextId() (lines 41-43).
nextId(ds) ==
  IF ds = <<>> THEN 1
  ELSE SetMax({IF ds[i].id.t = "num" THEN ds[i].id.v ELSE 0 : i \in 1..Len(ds)}) + 1

\* memEntry of POST /documents (lines 257-353): without a stored file; with a
\* file stored and the row inserted; with a file stored and the insert failed.
UploadKinds == {"plain", "stored", "stored-norow"}
memEntry(kind, ds) ==
  LET n == DigitChar(Len(ds) + 1)
  IN CASE kind = "stored" -> MemDoc(Str(<<"u", n>>), Str(<<"p", n>>), "uploaded", TRUE)
       [] kind = "stored-norow" -> MemDoc(Num(nextId(ds)), Str(<<"p", n>>), "uploaded", FALSE)
       [] OTHER -> MemDoc(Num(nextId(ds)), Null, "uploaded", FALSE)

\* :id of a process request: numeric ids, UUIDs, something else.
ProcIds == {<<"1">>, <<"2">>, <<"3">>, <<"u", "3">>, <<"u", "9">>, <<"x">>}

\* What a select on documents gives resolveDocByParam: a row with a
\* storage_path, a row without, an error, a rejection.
RowOutcomes == {"row", "row-nopath", "err", "throw"}

\* What the RAG service answers.
RagOutcomes == {"ok", "not-ok", "reject"}

\* normalizeRowToDoc(row) (lines 86-100) for the row a lookup by idParam found.
normalizeRowToDoc(idParam, o) ==
  MemDoc(Str(IF isUuid(idParam) THEN idParam ELSE <<"u", "8">>),
         IF o = "row-nopath" THEN Null
         ELSE IF isUuid(idParam) THEN Str(<<"p", idParam[2]>>) ELSE Str(idParam),
         "uploaded", TRUE)

\* docs.find(d => typeof d.id === 'number' && d.id === num) (line 133)
MemFound(ds, idParam) ==
  {i \in 1..Len(ds) : ds[i].id.t = "num" /\ ds[i].id.v = DigitVal(idParam[1])}

\* docs.findIndex(d => String(d.id) === String(doc.id) ||
\*   String(d.storage_path) === String(doc.storage_path)) (line 579); 0 for -1.
FindIndex(ds, doc) ==
  LET hits == {i \in 1..Len(ds) :
                 \/ JsString(ds[i].id) = JsString(doc.id)
                 \/ JsString(ds[i].storage_path) = JsString(doc.storage_path)}
  IN IF hits = {} THEN 0 ELSE CHOOSE i \in hits : \A j \in hits : i <= j

SetStatus(ds, i, status) == IF i = 0 THEN ds ELSE [ds EXCEPT ![i].status = status]

procRest == <<chatSide, dreq, dstore>>

\* POST /documents (lines 246-357): the entry is pushed onto docs.
AdminUpload(kind) ==
  /\ proc.pc = "idle"
  /\ Len(docs) < MaxDocs
  /\ kind # "plain" => proc.supabase
  /\ docs' = Append(docs, memEntry(kind, docs))
  /\ UNCHANGED <<procRest, proc>>

\* Lines 590-599 and 612-633: the status 'error' is written to the row when
\* there is one, then to docs[memIndex], and 500 is sent.
ProcFail(r, ds) ==
  IF r.supabase /\ r.doc.supabase_row
  THEN /\ proc' = [r EXCEPT !.pc = "mark-error"]
       /\ docs' = ds
  ELSE /\ proc' = [r EXCEPT !.pc = "done", !.res = 500]
       /\ docs' = SetStatus(ds, r.memIndex, "error")

\* Lines 578-611: memIndex, docs[memIndex].status = 'processing', then the
\* request to the RAG service, or the failure when none is configured.
ProcTrigger(r) ==
  LET memIndex == FindIndex(docs, r.doc)
      marked == SetStatus(docs, memIndex, "processing")
      q == [r EXCEPT !.memIndex = memIndex]
  IN IF ~r.RAG_SERVICE_URL
     THEN ProcFail(q, marked)
     ELSE /\ proc' = [q EXCEPT !.pc = "fetch"]
          /\ docs' = marked

\* Lines 564-577 once the document is resolved: 404, or the update of the row
\* to 'processing' when there is one, or straight on.
ProcResolvedTo(r, doc) ==
  IF doc = NoDoc
  THEN /\ proc' = [r EXCEPT !.pc = "done", !.res = 404]
       /\ docs' = docs
  ELSE IF r.supabase /\ doc.supabase_row
  THEN /\ proc' = [r EXCEPT !.pc = "mark", !.doc = doc]
       /\ docs' = docs
  ELSE ProcTrigger([r EXCEPT !.doc = doc])

\* The handler up to its first await: resolveDocByParam (lines 107-152) for a
\* UUID asks Supabase, for a number looks into docs, otherwise asks Supabase.
ProcReceive(idParam) ==
  /\ proc.pc \in {"idle", "done"}
  /\ LET r == [proc EXCEPT !.idParam = idParam, !.doc = NoDoc, !.memIndex = 0,
                            !.res = 0, !.before = docs]
     IN IF isUuid(idParam)
        THEN IF r.supabase
             THEN proc' = [r EXCEPT !.pc = "resolve"] /\ docs' = docs
             ELSE ProcResolvedTo(r, NoDoc)
        ELSE IF IsNumeric(idParam) /\ MemFound(docs, idParam) # {}
        THEN ProcResolvedTo(r, docs[CHOOSE i \in MemFound(docs, idParam) :
                                      \A j \in MemFound(docs, idParam) : i <= j])
        ELSE IF r.supabase
        THEN proc' = [r EXCEPT !.pc = "resolve"] /\ docs' = docs
        ELSE ProcResolvedTo(r, NoDoc)
  /\ UNCHANGED procRest

\* resolveDocByParam after its select settled (lines 119-126, 141-148).
ProcResolved(o) ==
  /\ proc.pc = "resolve"
  /\ ProcResolvedTo(proc, IF o \in {"row", "row-nopath"}
                          THEN normalizeRowToDoc(proc.idParam, o) ELSE NoDoc)
  /\ UNCHANGED procRest

\* Lines 571-577 after the update to 'processing' settled; its failure is
\* only logged.
ProcMarked(o) ==
  /\ proc.pc = "mark"
  /\ ProcTrigger(proc)
  /\ UNCHANGED procRest

\* Lines 602-633 after the RAG service answered.
ProcFetched(o) ==
  /\ proc.pc = "fetch"
  /\ IF o = "ok"
     THEN /\ proc' = [proc EXCEPT !.pc = "done", !.res = 200]
          /\ docs' = docs
     ELSE ProcFail(proc, docs)
  /\ UNCHANGED procRest

\* ... after the update of the row to 'error' settled.
ProcErrorMarked(o) ==
  /\ proc.pc = "mark-error"
  /\ proc' = [proc EXCEPT !.pc = "done", !.res = 500]
  /\ docs' = SetStatus(docs, proc.memIndex, "error")
  /\ UNCHANGED procRest

InitProcess ==
  /\ env = Env(<<"A", "I", "z", "a">>, <<>>, FALSE)
  /\ FreshChat
  /\ pc = "idle"
  /\ ask = AskIdle(FALSE)
  /\ dreq = DocsIdle(FALSE, FALSE)
  /\ dstore = InitialStore
  /\ docs = SampleDocs
  /\ proc \in {ProcIdle(sb, rag) : sb \in BOOLEAN, rag \in BOOLEAN}

NextProcess ==
  \/ \E kind \in UploadKinds : AdminUpload(kind)
  \/ \E idParam \in ProcIds : ProcReceive(idParam)
  \/ \E o \in RowOutcomes : ProcResolved(o)
  \/ \E o \in DbOutcomes : ProcMarked(o)
  \/ \E o \in RagOutcomes : ProcFetched(o)
  \/ \E o \in DbOutcomes : ProcErrorMarked(o)

SpecProcess == InitProcess /\ [][NextProcess]_vars

(***************************************************************************)
(* translateToEnglish called again and again, calls overlapping, while the  *)
(* clock moves.                                                             *)
(***************************************************************************)
TranslateTexts == {<<>>, <<"Apa", "itu", "fotosintesis">>}

\* What the generateText call of translateToEnglish settles to: a text, another
\* text, a blank text, a throw.
Settled(gpc, value) == GenState(gpc, "translate", 0, FALSE, <<>>, NoErr, value, NoError)
TranslateSettled ==
  {Settled("returned", "water"), Settled("returned", "rain"), Settled("returned", " "),
   Settled("threw", "")}

\* The instants at which the clock is read: just after start-up, one TTL after
\* start-up, and later.
ClockInstants == {1, TRANSLATE_CACHE_TTL_MS, MaxClock}

\* A return of translateToEnglish: its argument, the string returned, whether a
\* cached string was returned, whether a string was cached, the time of the
\* call and of the return.
Returned(text, value, hit, cached, at, done) ==
  [text |-> text, value |-> value, hit |-> hit, cached |-> cached, at |-> at,
   done |-> done]

trChat ==
  <<env, pc, req, queryForSearch, locals, res, gen, searchLog, searchQuery, dbCalls,
    persist, store, ask, searchReply, adminSide>>

\* translateToEnglish(text) up to its return or its await (lines 57-71).
TranslateCall(q) ==
  /\ pc = "tcache"
  /\ Len(tlog) + Cardinality(tcalls) < MaxTranslateCalls
  /\ LET text == JoinWords(q)
         got == cacheGetTranslate(translateCache, CacheKey(text), now)
     IN IF q = <<>>
        THEN /\ tlog' = Append(tlog, Returned("", "", FALSE, FALSE, now, now))
             /\ UNCHANGED <<translateCache, tcalls>>
        ELSE /\ translateCache' = got.cache
             /\ IF got.value # ""
                THEN /\ tlog' = Append(tlog, Returned(text, got.value, TRUE, FALSE, now, now))
                     /\ tcalls' = tcalls
                ELSE /\ tcalls' = tcalls \cup
                                    {[id |-> Len(tlog) + Cardinality(tcalls) + 1,
                                      text |-> text, at |-> now]}
                     /\ tlog' = tlog
  /\ UNCHANGED <<trChat, now>>

\* Lines 72-93 after the generateText of a call settled.
TranslateReturn(g) ==
  /\ pc = "tcache"
  /\ \E c \in tcalls :
       LET r == translateResult(g, c.text)
       IN /\ tcalls' = tcalls \ {c}
          /\ translateCache' = IF r.cached
                                THEN cacheSetTranslate(translateCache, CacheKey(c.text),
                                                       r.value, now)
                                ELSE translateCache
          /\ tlog' = Append(tlog, Returned(c.text, r.value, FALSE, r.cached, c.at, now))
  /\ UNCHANGED <<trChat, now>>

\* Date.now() moves on.
Tick(t) ==
  /\ pc = "tcache"
  /\ t > now
  /\ now' = t
  /\ UNCHANGED <<trChat, translateCache, tcalls, tlog>>

InitTranslate ==
  /\ env = Env(<<"A", "I", "z", "a">>, <<>>, FALSE)
  /\ Fresh
  /\ pc = "tcache"
  /\ ask = AskIdle(FALSE)

NextTranslate ==
  \/ \E q \in TranslateTexts : TranslateCall(q)
  \/ \E g \in TranslateSettled : TranslateReturn(g)
  \/ \E t \in ClockInstants : Tick(t)

SpecTranslate == InitTranslate /\ [][NextTranslate]_vars

(***************************************************************************)
(* Properties                                                               *)
(***************************************************************************)
GenModels == Models(env.GEMINI_MODEL)
BearerShaped == StartsWith(env.RAW_KEY, <<"y", "a", "2", "9">>)
LastAttempt == gen.attempts[Len(gen.attempts)]
Exhausted == "Gemini API error (all attempts failed)"
TotalCombos == Len(GenModels) * (IF BearerShaped THEN 2 ELSE 1)

\* C1 as stated: out_of_context is true exactly when the chunk sequence is
\* empty or the similarity of the first chunk is strictly below the threshold,
\* and has_context is its negation.
C1_Original ==
  pc = "generate" =>
    /\ out_of_context = (chunks = <<>> \/ JsLess(ToNumber(chunks[1].similarity), threshold))
    /\ has_context = ~out_of_context

\* C1 amended: out_of_context is true exactly when the chunk sequence is empty
\* or the similarity of the first chunk, counted as 0 when it is not a number,
\* is strictly below the threshold; a similarity equal to the threshold is
\* grounded; has_context is the negation of out_of_context, in the handler and
\* in the response.
C1_Grounding ==
  /\ pc = "generate" =>
       LET n == IF chunks = <<>> THEN NaN ELSE ToNumber(chunks[1].similarity)
           eff == IF n.t = "nan" THEN Num(0) ELSE n
       IN /\ out_of_context = (chunks = <<>> \/ (threshold.t = "num" /\ eff.v < threshold.v))
          /\ (chunks # <<>> /\ threshold.t = "num" /\ eff.v = threshold.v) => has_context
          /\ has_context = ~out_of_context
  /\ res.answered =>
       /\ res.has_context = ~res.out_of_context
       /\ res.out_of_context = out_of_context

\* A first chunk whose similarity equals the threshold has been judged grounded.
C1_Witness ==
  /\ pc = "generate"
  /\ chunks # <<>>
  /\ chunks[1].similarity = Num(250)
  /\ threshold = Num(250)
  /\ has_context

\* C2: the prompt embeds the context block exactly when has_context, and the
\* "no relevant context" note exactly when out_of_context; with has_context the
\* block has one labelled entry per chunk, in retrieval order; an answer built
\* without context is never flagged as grounded.
C2_PromptFraming ==
  /\ prompt # NoPrompt =>
       /\ (prompt.template = "context") = has_context
       /\ (prompt.context # <<>>) = has_context
       /\ prompt.note = out_of_context
       /\ has_context =>
            /\ Len(prompt.context) = Len(chunks)
            /\ \A i \in 1..Len(chunks) :
                 /\ prompt.context[i].n = i
                 /\ prompt.context[i].doc = JsOr(chunks[i].document_title, chunks[i].document_id)
                 /\ prompt.context[i].idx = chunks[i].chunk_index
                 /\ prompt.context[i].text = chunks[i].text
  /\ res.answered =>
       /\ prompt # NoPrompt
       /\ prompt.note => (res.out_of_context /\ ~res.has_context)
       /\ res.has_context => (prompt.template = "context" /\ chunks # <<>>)

\* A grounded prompt over two retrieved chunks.
C2_Witness ==
  /\ pc = "generate"
  /\ has_context
  /\ Len(chunks) = 2
  /\ Len(prompt.context) = 2

\* C3 as stated: a transport failure, a non-success status or a malformed body
\* of the retrieval backend gives an empty chunk sequence, and no reply of the
\* retrieval backend ends the request in an error response.
C3_Original ==
  searchLog # <<>> =>
    /\ searchLog[1] \in {"reject", "http-error", "unparsable"} => chunks = <<>>
    /\ pc = "done" => res.status # 500

\* C4: with no retrieval backend configured no retrieval call is made, and every
\* non-empty question is judged out of context and gets the prompt without
\* context.
C4_NoBackend ==
  ~env.RAG_WORKER_URL =>
    /\ searchLog = <<>>
    /\ (pc \in {"generate", "save", "save-chat", "save-msgs", "done"} /\ req.question # <<>>) =>
         /\ ~has_context
         /\ out_of_context
         /\ prompt.template = "no-context"
         /\ prompt.note
         /\ prompt.context = <<>>
    /\ res.answered => (~res.has_context /\ res.out_of_context /\ res.chunks = <<>>)

\* An answer sent by a server without retrieval backend.
C4_Witness ==
  /\ ~env.RAG_WORKER_URL
  /\ pc = "done"
  /\ res.answered
  /\ res.out_of_context

\* C5: the attempts are made in priority order; a successful attempt is the
\* last one made, and generateText has returned the text extracted from it.
C5_FirstSuccessStops ==
  LET a == gen.attempts
      n == Len(a)
  IN /\ \A i \in 1..n : a[i].ok => (i = n /\ gen.pc = "returned")
     /\ \A i \in 1..n : \A j \in (i + 1)..n :
          \/ a[i].idx < a[j].idx
          \/ (a[i].idx = a[j].idx /\ a[i].bearer /\ ~a[j].bearer)
     /\ gen.pc = "returned" =>
          /\ n > 0
          /\ a[n].ok
          /\ gen.value = extractTextFromResponse(Is25plus(GenModels[a[n].idx]),
                                                 ParseBody(a[n].text), a[n].text)

\* generateText has returned after at least two failed attempts.
C5_Witness == gen.pc = "returned" /\ Len(gen.attempts) >= 3

\* C6 as stated: when only the last of the N candidates succeeds, exactly N
\* attempts have been made.
C6_Original ==
  (gen.pc = "returned" /\ LastAttempt.idx = Len(GenModels)) =>
    Len(gen.attempts) = Len(GenModels)

\* C6 amended: when only the last of the N candidates succeeds, generateText
\* returns its output after one API-key attempt per candidate (N attempts) when
\* the credential is not bearer-shaped, and after the bearer and the API-key
\* attempt on each of the N-1 failing candidates plus one or two attempts on the
\* last (2N-1 or 2N attempts) when it is; the attempts are in priority order.
C6_FallbackCount ==
  (gen.pc = "returned" /\ LastAttempt.idx = Len(GenModels)) =>
    LET a == gen.attempts
        n == Len(a)
        N == Len(GenModels)
    IN /\ gen.value = extractTextFromResponse(Is25plus(GenModels[N]),
                                              ParseBody(a[n].text), a[n].text)
       /\ \A i \in 1..(n - 1) : ~a[i].ok
       /\ IF BearerShaped
          THEN /\ n \in {2 * N - 1, 2 * N}
               /\ \A k \in 1..(N - 1) :
                    /\ a[2 * k - 1] = [idx |-> k, bearer |-> TRUE, ok |-> FALSE, text |-> NullText]
                    /\ a[2 * k] = [idx |-> k, bearer |-> FALSE, ok |-> FALSE, text |-> NullText]
          ELSE /\ n = N
               /\ \A k \in 1..N : a[k].idx = k /\ ~a[k].bearer

\* The last candidate answered its bearer call after every other call failed.
C6_Witness ==
  /\ gen.pc = "returned"
  /\ BearerShaped
  /\ LastAttempt.idx = Len(GenModels)
  /\ Len(gen.attempts) = 2 * Len(GenModels) - 1

\* C7: with a bearer-shaped credential every candidate gets its bearer call
\* first and its API-key call only after that bearer call failed, both before
\* the next candidate; with any other credential no bearer call is made and each
\* candidate reached gets exactly one API-key call.
C7_CredentialOrder ==
  LET a == gen.attempts
      n == Len(a)
  IN IF BearerShaped
     THEN \A i \in 1..n :
            /\ a[i].idx = (i + 1) \div 2
            /\ a[i].bearer = (i % 2 = 1)
            /\ ~a[i].bearer =>
                 (a[i - 1].bearer /\ ~a[i - 1].ok /\ a[i - 1].idx = a[i].idx)
     ELSE \A i \in 1..n : ~a[i].bearer /\ a[i].idx = i

\* Two candidates have been tried with both schemes.
C7_Witness == BearerShaped /\ Len(gen.attempts) >= 4

C8_Inv ==
  /\ (Len(gen.attempts) = TotalCombos /\ \A i \in 1..Len(gen.attempts) : ~gen.attempts[i].ok) =>
       /\ gen.pc = "threw"
       /\ gen.value = ""
       /\ gen.error.type = Exhausted
       /\ gen.error.last = gen.lastErr
       /\ gen.lastErr.model = GenModels[Len(GenModels)]
       /\ gen.lastErr.scheme = "API-key"
       /\ gen.lastErr.status \notin 200..299
  /\ res.status = 502 =>
       /\ ~res.answered
       /\ res.reply = ""
       /\ res.error # ""
       /\ res.detail.type # ""

C8_Step ==
  (pc = "generate" /\ gen.pc = "threw") =>
    (pc' = "done" /\ res'.status = 502 /\ res'.detail = gen.error)

\* C8: when every model/credential combination has failed, generateText throws
\* one error that carries the description of the last failed attempt and
\* returns no text; the handler answers the failed generation with 502,
\* {error, detail} and no reply.
C8_Exhaustion == []C8_Inv /\ [][C8_Step]_vars

\* The 502 sent after the last API-key call failed.
C8_Witness ==
  /\ pc = "done"
  /\ res.status = 502
  /\ res.detail.type = Exhausted
  /\ res.detail.last.scheme = "API-key"

\* C9 as stated: the text extracted from an HTTP-success reply is never empty.
C9_Original == gen.pc = "returned" => gen.value # ""

\* C10: a fetch that is rejected or aborted by the timeout makes a failed
\* attempt: nothing escapes generateText but its own two errors, and the loop
\* goes on to the next call in priority order, or ends exhausted after the last.
C10_TimeoutIsAttemptFailure ==
  LET a == gen.attempts
      n == Len(a)
  IN /\ gen.pc = "threw" => gen.error.type \in {Exhausted, "GEMINI_API_KEY not configured"}
     /\ (gen.pc \in {"call", "threw"} /\ n > 0 /\ gen.lastErr.status = 0) =>
          /\ ~a[n].ok
          /\ IF a[n].bearer
             THEN gen.pc = "call" /\ gen.idx = a[n].idx /\ ~gen.bearer
             ELSE IF a[n].idx < Len(GenModels)
             THEN gen.pc = "call" /\ gen.idx = a[n].idx + 1 /\ gen.bearer = BearerShaped
             ELSE gen.pc = "threw" /\ gen.error.type = Exhausted

\* The loop stands before its third call, the second having had no HTTP reply.
C10_Witness == gen.pc = "call" /\ Len(gen.attempts) >= 2 /\ gen.lastErr.status = 0

(***************************************************************************)
(* Translation, validation and persistence                                  *)
(***************************************************************************)
OriginalQuestion == JoinWords(req.question)
QuestionKey == CacheKey(OriginalQuestion)

\* C11: the question embedded in the prompt is the original question of the
\* request, whether or not translation ran and whatever it returned; the
\* translated string is the query of the retrieval request and nothing else
\* (the user message handed to the store carries the original question too).
C11_PromptUsesOriginal ==
  /\ prompt # NoPrompt => prompt.question = OriginalQuestion
  /\ searchLog # <<>> =>
       searchQuery = IF isLikelyIndonesian(req.question) /\ translateCache[QuestionKey].present
                     THEN translateCache[QuestionKey].value
                     ELSE OriginalQuestion
  /\ \A i \in 1..Len(writes) : writes[i][1].content = OriginalQuestion

\* A prompt built after the retrieval request went out with a translation that
\* differs from the question.
C11_Witness ==
  /\ prompt # NoPrompt
  /\ searchLog # <<>>
  /\ searchQuery # OriginalQuestion
  /\ prompt.question = OriginalQuestion

\* C13: the translation step never ends the request: whatever generateText
\* did, the handler goes on to retrieval without a response having been sent;
\* when the translation call failed or gave a blank text, the retrieval query
\* is the original question and nothing is cached.
C13_Inv ==
  /\ pc = "translate" => res = NoResponse
  /\ (searchLog # <<>> /\ isLikelyIndonesian(req.question)
        /\ ~translateCache[QuestionKey].present) => searchQuery = OriginalQuestion

C13_Step ==
  (pc = "translate" /\ pc' # "translate") =>
    /\ pc' = "search"
    /\ res' = NoResponse
    /\ (gen.pc = "threw" \/ Trim(gen.value) = "") =>
         /\ queryForSearch' = OriginalQuestion
         /\ translateCache' = translateCache

C13_TranslationFallback == []C13_Inv /\ [][C13_Step]_vars

\* An Indonesian question whose translation failed or came back blank was sent
\* to retrieval as it is, and the pipeline reached generation.
C13_Witness ==
  /\ pc = "generate"
  /\ isLikelyIndonesian(req.question)
  /\ ~translateCache[QuestionKey].present
  /\ searchLog # <<>>
  /\ searchQuery = OriginalQuestion

\* C14: a request whose question is missing or empty ends with a 4xx response
\* and no translation, retrieval, generation or chat-store call: POST /api/chat
\* answers 400 at once; /chat/ask answers 400 once requireAuth let the caller
\* through (401 otherwise), having called nothing but the token verification.
C14_FailFast ==
  /\ (pc # "idle" /\ req.question = <<>>) =>
       /\ pc = "done"
       /\ res.status = 400
       /\ gen = GenIdle
       /\ searchLog = <<>>
       /\ dbCalls = <<>>
       /\ \A k \in CacheKeys : ~translateCache[k].present
  /\ (ask.pc # "idle" /\ ask.question = <<>>) =>
       /\ ask.pc \in {"auth", "done"}
       /\ ask.pc = "done" => ask.res.status \in {400, 401}
       /\ (ask.pc = "done" /\ ask.user # "") => ask.res.status = 400
       /\ \A i \in 1..Len(ask.calls) : ask.calls[i] = "auth.getUser"
  /\ ((pc # "idle" /\ req.question = <<>>) \/ (ask.pc # "idle" /\ ask.question = <<>>)) =>
       /\ writes = <<>>
       /\ inflight = {}
       /\ messages = <<>>
       /\ chatRows = InitialChats

\* An authenticated /chat/ask request without question was answered 400.
C14_Witness ==
  /\ ask.pc = "done"
  /\ ask.question = <<>>
  /\ ask.user = Caller
  /\ ask.res.status = 400

\* C15: with no bearer token in the request (no Authorization header, or
\* "Bearer " and nothing after it) POST /api/chat makes no Supabase call at
\* all, writes nothing, and a generated reply is sent with status 200 and
\* saved null.
NoBearerToken == req.authorization \in {<<>>, <<"Bearer ">>}

C15_Inv ==
  NoBearerToken =>
    /\ dbCalls = <<>>
    /\ writes = <<>>
    /\ messages = <<>>
    /\ chatRows = InitialChats
    /\ pc \notin {"save", "save-chat", "save-msgs"}
    /\ res.answered => (res.status = 200 /\ res.saved = NoSaved)

C15_Step ==
  (pc = "generate" /\ gen.pc = "returned" /\ pc' # "generate"
     /\ req'.authorization \in {<<>>, <<"Bearer ">>}) =>
    /\ pc' = "done"
    /\ res'.answered
    /\ res'.status = 200
    /\ res'.reply = gen.value
    /\ res'.saved = NoSaved

C15_NoTokenSkipsPersistence == []C15_Inv /\ [][C15_Step]_vars

\* An answer sent to a request whose Authorization header is "Bearer " alone.
C15_Witness ==
  /\ pc = "done"
  /\ res.answered
  /\ req.authorization = <<"Bearer ">>
  /\ res.saved = NoSaved

\* C16 as stated: a failing persistence write never surfaces as an HTTP error.
\* The step in which the session insert or the message insert of POST
\* /api/chat settles sends the 200 answer, and the step in which the session
\* insert of /chat/ask settles sends no error response.
C16_Original ==
  [][ /\ (pc \in {"save-chat", "save-msgs"} /\ pc' = "done") =>
            (res'.status = 200 /\ res' = Answer(genText, res'.saved))
      /\ (ask.pc = "create" /\ ask'.pc = "done") => ask'.res.status < 400 ]_vars

C17_Inv ==
  /\ (inflight # {} /\ ask.res = NoAskResponse) => ask.pc \in {"search", "titles", "gen"}
  /\ pc = "save-msgs" => res = NoResponse
  /\ (res.answered /\ writes # <<>> /\ ask.pc = "idle") => pc = "done"

C17_Step ==
  /\ (ask.pc # "done" /\ ask'.pc = "done" /\ ask'.res.status = 200) =>
       MessageRow(ask'.sessionId, "assistant", ask'.res.answer) \in inflight'
  /\ (~res.answered /\ res'.answered /\ writes' # <<>>) =>
       (pc = "save-msgs" /\ writes' = writes)

C18_Original ==
  /\ \A i \in 1..Len(messages) :
       \E r \in chatRows : r.id = messages[i].session /\ r.user_id = Caller
  /\ (ask.pc = "done" /\ ask.given = "c2" /\ ask.user # "") => ask.res.status >= 400
  /\ (pc = "done" /\ req.chat_id = "c2" /\ persist.userId # "") => res.status = 403

\* C19 as stated: after a successful turn of a resolved caller a session was
\* created exactly when none was supplied, and the store holds exactly the two
\* messages of the turn, the user's question and then the assistant's answer.
C19_Original ==
  /\ (pc = "done" /\ res.answered /\ persist.userId # "") =>
       /\ (ChatRow(NewChatId, Caller) \in chatRows) = (req.chat_id = "")
       /\ messages = <<MessageRow(persist.chatId, "user", OriginalQuestion),
                       MessageRow(persist.chatId, "assistant", genText)>>
  /\ (ask.res.status = 200 /\ inflight = {}) =>
       /\ (ChatRow(NewChatId, Caller) \in chatRows) = (ask.given = "")
       /\ messages = <<MessageRow(ask.sessionId, "user", JoinWords(ask.question)),
                       MessageRow(ask.sessionId, "assistant", ask.res.answer)>>

\* C19 amended: on a turn answered with 200 for a resolved caller, the creation
\* of a session is requested exactly when none was supplied; the two messages
\* (user: the original question, assistant: the answer) are handed to the store
\* once each, by POST /api/chat in one insert provided it has a chat id, by
\* /chat/ask in two inserts; the store holds none, or both in that one insert,
\* or any of the two for /chat/ask, and never anything else.
C19_TurnWrites ==
  /\ (pc = "done" /\ res.answered /\ persist.userId # "") =>
       /\ (\E i \in 1..Len(dbCalls) : dbCalls[i] = "insert chats") = (req.chat_id = "")
       /\ (ChatRow(NewChatId, Caller) \in chatRows) => req.chat_id = ""
       /\ chatRows \subseteq InitialChats \cup {ChatRow(NewChatId, Caller)}
       /\ IF persist.chatId = ""
          THEN writes = <<>> /\ messages = <<>>
          ELSE /\ writes = << <<MessageRow(persist.chatId, "user", OriginalQuestion),
                               MessageRow(persist.chatId, "assistant", genText)>> >>
               /\ messages \in {<<>>, writes[1]}
               /\ res.reply = genText
       /\ ~res.saved.isNull => (messages = writes[1] /\ res.saved.chat_id = persist.chatId)
  /\ ask.res.status = 200 =>
       /\ (\E i \in 1..Len(ask.calls) : ask.calls[i] = "insert chat_sessions") = (ask.given = "")
       /\ (ChatRow(NewChatId, Caller) \in chatRows) = (ask.given = "")
       /\ ask.sessionId = (IF ask.given = "" THEN NewChatId ELSE ask.given)
       /\ writes = << <<MessageRow(ask.sessionId, "user", JoinWords(ask.question))>>,
                      <<MessageRow(ask.sessionId, "assistant", ask.res.answer)>> >>
       /\ \A i \in 1..Len(messages) : messages[i] \in {writes[1][1], writes[2][1]}
       /\ \A i, j \in 1..Len(messages) : messages[i] = messages[j] => i = j
       /\ \A i \in 1..Len(messages) : messages[i] \notin inflight

\* A turn of POST /api/chat without chat_id that created the chat and stored
\* its two messages.
C19_Witness ==
  /\ pc = "done"
  /\ res.answered
  /\ req.chat_id = ""
  /\ ChatRow(NewChatId, Caller) \in chatRows
  /\ Len(messages) = 2
  /\ ~res.saved.isNull

\* C20 as stated: in the store the user message of a turn comes before the
\* assistant message of the same turn.
C20_Original ==
  \A i, j \in 1..Len(messages) :
    (messages[i].session = messages[j].session
       /\ messages[i].role = "assistant" /\ messages[j].role = "user") => j < i

\* C12 as stated: of two translateToEnglish calls for the same text, the later
\* made after the earlier returned and within the TTL of it, the later returns
\* the string the earlier returned, from the cache, without a call to the
\* generation backend.
C12_Original ==
  \A i, j \in 1..Len(tlog) :
    (i < j /\ tlog[i].text = tlog[j].text /\ tlog[i].text # ""
       /\ tlog[i].done <= tlog[j].at
       /\ tlog[j].at - tlog[i].at <= TRANSLATE_CACHE_TTL_MS) =>
      (tlog[j].hit /\ tlog[j].value = tlog[i].value)

\* C12 amended: a call made while the cache holds an entry for the exact text
\* that is not older than the TTL returns the string of that entry without a
\* call to the generation backend and leaves the cache as it is; any other call
\* for a non-empty text calls the backend.  An entry is stored only by a call
\* whose translation came back non-blank, so every cached string returned is
\* the string that an earlier call for the same text obtained from the backend
\* and stored no more than the TTL before.
C12_Inv ==
  /\ \A j \in 1..Len(tlog) :
       tlog[j].hit =>
         \E i \in 1..(j - 1) :
           /\ tlog[i].text = tlog[j].text
           /\ ~tlog[i].hit
           /\ tlog[i].cached
           /\ tlog[i].value = tlog[j].value
           /\ tlog[i].done <= tlog[j].at
           /\ tlog[j].at - tlog[i].done <= TRANSLATE_CACHE_TTL_MS
  /\ \A k \in CacheKeys :
       translateCache[k].present =>
         \E i \in 1..Len(tlog) :
           /\ CacheKey(tlog[i].text) = k
           /\ tlog[i].cached
           /\ tlog[i].value = translateCache[k].value
           /\ tlog[i].done = translateCache[k].ts

C12_Step ==
  \A q \in TranslateTexts \ {<<>>} :
    LET entry == translateCache[CacheKey(JoinWords(q))]
    IN TranslateCall(q) =>
         IF entry.present /\ now - entry.ts <= TRANSLATE_CACHE_TTL_MS
         THEN /\ tlog' = Append(tlog, Returned(JoinWords(q), entry.value, TRUE, FALSE, now, now))
              /\ tcalls' = tcalls
              /\ translateCache' = translateCache
         ELSE /\ tlog' = tlog
              /\ Cardinality(tcalls') = Cardinality(tcalls) + 1

C12_CachedTranslation == []C12_Inv /\ [][C12_Step]_vars

\* A call made exactly one TTL after a translation was stored got the stored
\* string from the cache.
C12_Witness ==
  \E i, j \in 1..Len(tlog) :
    /\ i < j
    /\ tlog[i].cached
    /\ tlog[j].hit
    /\ tlog[j].value = tlog[i].value
    /\ tlog[j].at - tlog[i].done = TRANSLATE_CACHE_TTL_MS

(***************************************************************************)
(* Candidate list, response shapes, cache expiry, document routes           *)
(***************************************************************************)
\* C27 as stated: within one generateText call no (model identifier,
\* credential scheme) pair is attempted twice; the candidate list holds each
\* normalized model identifier once, the configured primary model first.
C27_Original ==
  /\ \A i, j \in 1..Len(gen.attempts) :
       (GenModels[gen.attempts[i].idx] = GenModels[gen.attempts[j].idx]
          /\ gen.attempts[i].bearer = gen.attempts[j].bearer) => i = j
  /\ gen.pc # "idle" =>
       /\ \A i, j \in 1..Len(GenModels) : GenModels[i] = GenModels[j] => i = j
       /\ GenModels[1] = normalizeModelId(ENV_MODEL(env.GEMINI_MODEL))

\* The returns that stored a translation of the text of key k.
Cachers(k) == {i \in 1..Len(tlog) : tlog[i].cached /\ CacheKey(tlog[i].text) = k}
LastLogged == tlog'[Len(tlog')]

\* C24: when two translateToEnglish calls for the same text overlap (both read
\* the cache before either wrote it) both call the backend and nothing else
\* goes wrong: every call returns a non-empty query (a translation, or the text
\* itself when its translation failed or was blank), the return of one call
\* leaves the other in flight, each stored translation replaces the entry of
\* the key, and the entry found afterwards is the translation stored last.
C24_Inv ==
  /\ \A i \in 1..Len(tlog) :
       tlog[i].text # "" =>
         /\ tlog[i].value # ""
         /\ (tlog[i].hit \/ tlog[i].cached \/ tlog[i].value = tlog[i].text)
  /\ \A k \in CacheKeys :
       /\ translateCache[k].present =>
            /\ Cachers(k) # {}
            /\ translateCache[k].value = tlog[SetMax(Cachers(k))].value
            /\ translateCache[k].ts = tlog[SetMax(Cachers(k))].done
       /\ (Cachers(k) # {} /\ ~translateCache[k].present) =>
            now - tlog[SetMax(Cachers(k))].done > TRANSLATE_CACHE_TTL_MS

C24_Step ==
  (Len(tlog') = Len(tlog) + 1 /\ ~LastLogged.hit /\ LastLogged.text # "") =>
    /\ \E c \in tcalls : tcalls' = tcalls \ {c} /\ c.text = LastLogged.text
    /\ LastLogged.cached =>
         translateCache' =
           [translateCache EXCEPT ![CacheKey(LastLogged.text)] =
              [present |-> TRUE, value |-> LastLogged.value, ts |-> now]]
    /\ ~LastLogged.cached => translateCache' = translateCache

C24_ConcurrentTranslation == []C24_Inv /\ [][C24_Step]_vars

\* Two overlapping calls for one text got different translations, and the
\* cache holds the one stored last.
C24_Witness ==
  \E i, j \in 1..Len(tlog) :
    /\ i < j
    /\ tlog[i].text = tlog[j].text
    /\ tlog[i].cached /\ tlog[j].cached
    /\ tlog[j].at <= tlog[i].done
    /\ tlog[i].value # tlog[j].value
    /\ translateCache[CacheKey(tlog[j].text)].present
    /\ translateCache[CacheKey(tlog[j].text)].value = tlog[j].value

\* C26: a cached translation is returned only while its age does not exceed
\* the TTL; a read that finds the entry older than the TTL deletes it and goes
\* on to a fresh translation; an entry leaves the cache in no other step, and
\* the passing of time alone changes nothing in the cache.
C26_Step ==
  /\ \A k \in CacheKeys :
       (translateCache[k].present /\ ~translateCache'[k].present) =>
         /\ now - translateCache[k].ts > TRANSLATE_CACHE_TTL_MS
         /\ now' = now
         /\ tlog' = tlog
         /\ \E c \in tcalls' \ tcalls : CacheKey(c.text) = k /\ c.at = now
  /\ (Len(tlog') = Len(tlog) + 1 /\ LastLogged.hit) =>
       LET entry == translateCache[CacheKey(LastLogged.text)]
       IN /\ entry.present
          /\ now - entry.ts <= TRANSLATE_CACHE_TTL_MS
          /\ LastLogged.value = entry.value
          /\ translateCache' = translateCache
  /\ \A q \in TranslateTexts \ {<<>>} :
       LET entry == translateCache[CacheKey(JoinWords(q))]
       IN (TranslateCall(q) /\ entry.present /\ now - entry.ts > TRANSLATE_CACHE_TTL_MS) =>
            /\ ~translateCache'[CacheKey(JoinWords(q))].present
            /\ tlog' = tlog
  /\ now' # now => translateCache' = translateCache

C26_LazyExpiry == [][C26_Step]_vars

\* An entry stored earlier was found expired and deleted by a call that is now
\* waiting for a fresh translation.
C26_Witness ==
  /\ now > TRANSLATE_CACHE_TTL_MS
  /\ \E i \in 1..Len(tlog) :
       /\ tlog[i].cached
       /\ ~translateCache[CacheKey(tlog[i].text)].present
       /\ \E c \in tcalls : c.text = tlog[i].text /\ c.at = now

\* C28 as stated: a chat turn answered with an error (POST /api/chat or POST
\* /chat/ask) leaves the chat store as it was: no session was created, no
\* message insert was requested, no message was stored.
C28_Original ==
  /\ (pc = "done" /\ res.status >= 400) =>
       (chatRows = InitialChats /\ writes = <<>> /\ messages = <<>>)
  /\ (ask.pc = "done" /\ ask.res.status >= 400) =>
       (chatRows = InitialChats /\ writes = <<>> /\ inflight = {} /\ messages = <<>>)

\* The array of an accepted reply: {items: [...]}, [...] or
\* {items: {results: [...]}} in a parsed body of a successful response.
Retrieved ==
  IF searchReply.kind = "resp" /\ searchReply.ok /\ searchReply.body.parses
       /\ searchReply.body.shape \in {"items", "array", "nested"}
  THEN searchReply.body.arr
  ELSE <<>>
Min3(n) == IF n < 3 THEN n ELSE 3

\* C21: in a 200 response of POST /api/chat to a retrieval of n chunks, chunks
\* holds the n chunks normalized, in retrieval order, and top_chunks holds the
\* first min(3, n) of them in the same order (none when n = 0).
C21_TopChunks ==
  res.answered =>
    /\ Len(res.chunks) = Len(Retrieved)
    /\ \A i \in 1..Len(Retrieved) : res.chunks[i] = NormalizeChunk(Retrieved[i], i - 1)
    /\ Len(res.top_chunks) = Min3(Len(Retrieved))
    /\ \A i \in 1..Len(res.top_chunks) :
         /\ res.top_chunks[i].document_id = res.chunks[i].document_id
         /\ res.top_chunks[i].chunk_index = res.chunks[i].chunk_index
         /\ res.top_chunks[i].text = res.chunks[i].text

\* A 200 response to a retrieval of four chunks, not all alike.
C21_Witness ==
  /\ res.answered
  /\ Len(Retrieved) >= 4
  /\ Len(res.chunks) = Len(Retrieved)
  /\ Len(res.top_chunks) = 3
  /\ res.chunks[1].text # res.chunks[2].text
  /\ res.chunks[3].text # res.chunks[4].text

\* C22: the handler takes the chunk array from {items: [...]}, from a bare
\* array and from {items: {results: [...]}}, and normalizes it element by
\* element; after any other reply it stands where it stands with no RAG
\* worker configured: no chunks, out of context, the prompt without context.
C22_ReplyShapes ==
  searchReply # NoReply =>
    /\ Len(chunks) = Len(Retrieved)
    /\ \A i \in 1..Len(Retrieved) : chunks[i] = NormalizeChunk(Retrieved[i], i - 1)
    /\ Retrieved = <<>> =>
         /\ chunks = <<>>
         /\ out_of_context
         /\ ~has_context
         /\ pc # "done" => prompt = BuildPrompt(FALSE, <<>>, JoinWords(req.question))
         /\ res.status # 500

\* The array of a reply {items: {results: [...]}} became the chunks.
C22_Witness ==
  /\ searchReply.body.shape = "nested"
  /\ Len(chunks) >= 2
  /\ chunks[1].similarity = Num(250)
  /\ pc = "generate"

\* C23 as stated: after normalization every chunk has a number as similarity
\* and a document_id, and neither the grounding decision nor the context
\* block fails on a retrieved chunk (no 500 response).
C23_Original ==
  searchReply # NoReply =>
    /\ \A i \in 1..Len(chunks) :
         /\ chunks[i].similarity.t \in {"num", "nan"}
         /\ chunks[i].document_id.t = "str"
    /\ res.status # 500

\* The calls a document handler makes itself, after the two middlewares.
HandlerCalls == {i \in 1..Len(dreq.calls) : i > 2}
DocsCalled(c) == \E i \in 1..Len(dreq.calls) : dreq.calls[i].call = c
DocsOut(c) ==
  IF DocsCalled(c)
  THEN dreq.calls[CHOOSE i \in 1..Len(dreq.calls) : dreq.calls[i].call = c].out
  ELSE ""
InHandler ==
  dreq.pc \in {"up-storage", "up-insert", "read", "url-select", "url-sign", "del-select",
               "del-storage", "del-chunks", "del-row", "rb-select", "rb-fetch",
               "rb-fallback"}

\* C25: a handler of a document route runs only after getUser verified the
\* bearer token and profiles gave the role admin; a request without a token or
\* with a token that is not verified is answered 401 before profiles is read,
\* a verified user who is not admin 403; getUser is always called before
\* profiles; and a request that was not let through changes neither the
\* storage nor a table.
C25_Inv ==
  /\ (InHandler \/ HandlerCalls # {}) =>
       /\ dreq.user = Caller
       /\ dreq.role = "admin"
       /\ dreq.calls[1] = [call |-> "auth.getUser", out |-> "ok"]
       /\ dreq.calls[2] = [call |-> "select profiles", out |-> "admin"]
  /\ (dreq.pc # "idle" /\ getToken(dreq.authorization) = <<>>) =>
       (dreq.pc = "done" /\ dreq.res = 401 /\ dreq.calls = <<>>)
  /\ (dreq.pc = "done" /\ DocsOut("auth.getUser") \in {"err", "throw"}) =>
       (dreq.res = 401 /\ Len(dreq.calls) = 1)
  /\ (dreq.pc = "done" /\ DocsOut("select profiles") \in {"user", "err"}) =>
       (dreq.res = 403 /\ Len(dreq.calls) = 2)
  /\ DocsCalled("select profiles") =>
       dreq.calls[1] = [call |-> "auth.getUser", out |-> "ok"]
  /\ dreq.role # "admin" => dstore = InitialStore
  /\ dreq.res \in {401, 403} => (dreq.role # "admin" /\ HandlerCalls = {})

C25_Step ==
  dstore' # dstore => (InHandler /\ dreq.user = Caller /\ dreq.role = "admin")

C25_AdminOnly == []C25_Inv /\ [][C25_Step]_vars

\* A verified user who is not admin asked for a deletion and got 403, the
\* store as it was.
C25_Witness ==
  /\ dreq.pc = "done"
  /\ dreq.route = "delete"
  /\ dreq.user = Caller
  /\ dreq.role = "user"
  /\ dreq.res = 403
  /\ dstore = InitialStore

\* C30: DELETE /documents/:id asks for the deletion of the chunks before the
\* deletion of the row, and for the deletion of the row only once the deletion
\* of the chunks succeeded; after a 200 neither the row nor a chunk of that id
\* is left; after a failed deletion of the chunks the row is still there and
\* the response is an error; a storage removal that reports an error does not
\* stop the deletion.
C30_Inv ==
  dreq.route = "delete" =>
    /\ DocsCalled("delete documents") =>
         /\ DocsOut("delete chunks") = "ok"
         /\ \A c \in dstore.chunks : c.document_id # dreq.id
    /\ (dreq.pc = "done" /\ dreq.res = 200) =>
         /\ \A d \in dstore.documents : d.id # dreq.id
         /\ \A c \in dstore.chunks : c.document_id # dreq.id
         /\ DocsOut("delete documents") = "ok"
    /\ DocsOut("delete chunks") \in {"err", "throw"} =>
         /\ dreq.pc = "done"
         /\ dreq.res = 500
         /\ ~DocsCalled("delete documents")
         /\ \E d \in dstore.documents : d.id = dreq.id
         /\ dstore.chunks = InitialStore.chunks
    /\ DocsOut("storage.remove") = "err" => DocsCalled("delete chunks")
    /\ (dstore.documents # InitialStore.documents) =>
         (dreq.pc = "done" /\ dreq.res = 200)

C30_Step ==
  (dreq.route = "delete" /\ dstore'.documents # dstore.documents) =>
    /\ dreq.pc = "del-row"
    /\ \A c \in dstore.chunks : c.document_id # dreq.id

C30_DeleteOrder == []C30_Inv /\ [][C30_Step]_vars

\* A deletion answered 200 although the removal of the storage object failed:
\* the object is left, the chunks and the row are gone.
C30_Witness ==
  /\ dreq.route = "delete"
  /\ dreq.id = "d1"
  /\ dreq.pc = "done"
  /\ dreq.res = 200
  /\ DocsOut("storage.remove") = "err"
  /\ "p1" \in dstore.objects
  /\ \A d \in dstore.documents : d.id # "d1"
  /\ \A c \in dstore.chunks : c.document_id # "d1"

\* C29 as stated: a process request that resolved its document changes the
\* status of that document only: every other entry of docs has the status it
\* had when the request came in, and the entry of the document has
\* 'processing' after a 200 and 'error' after a 500.
C29_Original ==
  (proc.pc = "done" /\ proc.res # 404) =>
    \A i \in 1..Len(docs) :
      IF JsString(docs[i].id) = JsString(proc.doc.id)
      THEN docs[i].status = (IF proc.res = 200 THEN "processing" ELSE "error")
      ELSE docs[i].status = proc.before[i].status
====
